---- MODULE Spec2Model ----
(***************************************************************************)
(* A model of the startup analyzer: the free-text extraction pipeline of   *)
(* src/analyzer.py (field extraction, keyword weighting, graph building)   *)
(* and the renderers of src/report_generator.py (radar, graph diagram,     *)
(* keyword cloud, Markdown and HTML composition, save_all), the client     *)
(* handles of src/llm_client.py and src/startup_analyzer.py, and the run   *)
(* of src/main.py.                                                         *)
(*                                                                         *)
(* Text is a sequence of characters; a character is a one-character        *)
(* string, a CJK character is written by its code point ("u884C"), and a   *)
(* fixed literal of the program that holds no line break (a heading, a     *)
(* table cell border) is one token.                                        *)
(***************************************************************************)
EXTENDS Integers, Sequences, FiniteSets, TLC

VARIABLES caps, text, response, pc, key_elements, keywords, graph, ana, md,
          call, ret, err, client, files, out, stream

vars == <<caps, text, response, pc, key_elements, keywords, graph, ana, md,
          call, ret, err, client, files, out, stream>>

-----------------------------------------------------------------------------
(* Characters and character classes of Python's re module (str patterns).  *)

UpperSeq == <<"A","B","C","D","E","F","G","H","I","J","K","L","M",
              "N","O","P","Q","R","S","T","U","V","W","X","Y","Z">>
LowerSeq == <<"a","b","c","d","e","f","g","h","i","j","k","l","m",
              "n","o","p","q","r","s","t","u","v","w","x","y","z">>

UpperChars == {UpperSeq[i] : i \in 1..Len(UpperSeq)}
LowerChars == {LowerSeq[i] : i \in 1..Len(LowerSeq)}
DigitChars == {"0","1","2","3","4","5","6","7","8","9"}

\* Characters of the range 一-龥 that the model's texts use.
zh_hang   == "u884C"
zh_ye     == "u4E1A"
zh_jia    == "u4EF7"
zh_zhi    == "u503C"
zh_zhu    == "u4E3B"
zh_zhang  == "u5F20"
zh_chuang == "u521B"
zh_shi    == "u59CB"
zh_ren    == "u4EBA"
zh_gong   == "u516C"
zh_si     == "u53F8"
zh_wo     == "u6211"
zh_men    == "u4EEC"
zh_yi     == "u4EE5"
zh_ji     == "u53CA"
zh_yi1    == "u4E00"
zh_ge     == "u4E2A"
zh_de     == "u7684"
zh_he     == "u548C"
zh_shi4   == "u662F"
zh_zai    == "u5728"
zh_dui    == "u5BF9"
zh_yu     == "u4E0E"
zh_deng   == "u7B49"
zh_nian   == "u5E74"
zh_yue    == "u6708"
zh_ri     == "u65E5"

CJKChars == {zh_hang, zh_ye, zh_jia, zh_zhi, zh_zhu, zh_zhang, zh_chuang,
             zh_shi, zh_ren, zh_gong, zh_si, zh_wo, zh_men, zh_yi, zh_ji,
             zh_yi1, zh_ge, zh_de, zh_he, zh_shi4, zh_zai, zh_dui, zh_yu,
             zh_deng, zh_nian, zh_yue, zh_ri}

\* The full-width colon U+FF1A: outside 一-龥, neither \w nor \s.
FullColon == "uFF1A"

IsUpper(c) == c \in UpperChars
IsLower(c) == c \in LowerChars
IsAlpha(c) == c \in UpperChars \cup LowerChars
IsDigit(c) == c \in DigitChars
IsCJK(c)   == c \in CJKChars
\* \s of a str pattern
IsSpace(c) == c \in {" ", "\n", "\t"}
\* \w of a str pattern: letters of any script, digits and the underscore
IsWordChar(c) == IsAlpha(c) \/ IsDigit(c) \/ IsCJK(c) \/ c = "_"

\* str.lower() of one character
LowerChar(c) ==
    IF c \in UpperChars
    THEN LowerSeq[CHOOSE i \in 1..Len(UpperSeq) : UpperSeq[i] = c]
    ELSE c

\* str.lower()
Lower(s) == [i \in 1..Len(s) |-> LowerChar(s[i])]

\* s[:n] for n >= 0
Prefix(s, n) == SubSeq(s, 1, IF n < Len(s) THEN n ELSE Len(s))

\* str.strip(): both ends lose their white space
Strip(s) ==
    LET keep == {i \in 1..Len(s) : ~IsSpace(s[i])}
    IN  IF keep = {} THEN <<>>
        ELSE SubSeq(s, CHOOSE i \in keep : \A j \in keep : i <= j,
                       CHOOSE i \in keep : \A j \in keep : j <= i)

RECURSIVE Flatten(_)
\* "".join(parts)
Flatten(parts) ==
    IF parts = <<>> THEN <<>> ELSE Head(parts) \o Flatten(Tail(parts))

\* The end of the longest run of lower-case letters that starts at i
\* (i - 1 when s[i] is no lower-case letter): the greedy [a-z]+.
LowerRunEnd(s, i) ==
    CHOOSE j \in (i - 1)..Len(s) :
        /\ \A k \in i..j : IsLower(s[k])
        /\ (j = Len(s) \/ ~IsLower(s[j + 1]))

\* The greedy \s+ / \s*
SpaceRunEnd(s, i) ==
    CHOOSE j \in (i - 1)..Len(s) :
        /\ \A k \in i..j : IsSpace(s[k])
        /\ (j = Len(s) \/ ~IsSpace(s[j + 1]))

\* The greedy [A-Za-z]{3,}
AlphaRunEnd(s, i) ==
    CHOOSE j \in (i - 1)..Len(s) :
        /\ \A k \in i..j : IsAlpha(s[k])
        /\ (j = Len(s) \/ ~IsAlpha(s[j + 1]))

\* The greedy [一-龥]{2,}
CJKRunEnd(s, i) ==
    CHOOSE j \in (i - 1)..Len(s) :
        /\ \A k \in i..j : IsCJK(s[k])
        /\ (j = Len(s) \/ ~IsCJK(s[j + 1]))

\* The end of the line that holds position i: the greedy [^\n]+
LineEnd(s, i) ==
    CHOOSE j \in (i - 1)..Len(s) :
        /\ \A k \in i..j : s[k] # "\n"
        /\ (j = Len(s) \/ s[j + 1] = "\n")

\* An optional value: <<>> is None, <<v>> is the value v.
None == <<>>
Some(v) == <<v>>


\* The smallest / largest element of a non-empty set of integers
Min(S) == CHOOSE x \in S : \A y \in S : x <= y
Max(S) == CHOOSE x \in S : \A y \in S : y <= x

-----------------------------------------------------------------------------
(* Numbers.  A weight is a fixed-point number with nine decimal places:    *)
(* the integer w stands for w * 1e-9, so that the renderer's epsilon 1e-9  *)
(* is the unit in the last place.                                          *)

EpsInv == 1000000000
One == EpsInv
Eps == One \div EpsInv

\* a / b for 0 <= a <= b, b > 0 (no intermediate product exceeds One)
FixDiv(a, b) == (One \div b) * a + ((One % b) * a) \div b

-----------------------------------------------------------------------------
(* src/analyzer.py: StartupAnalyzer                                        *)

NameWindow == 200
KeywordLimit == 20

RECURSIVE NameExtend(_, _)
\* (?:\s+[A-Z][a-z]+)* after a match that ends at e: each round takes all
\* the white space and then one capitalized word, or the match ends at e.
NameExtend(s, e) ==
    LET w == SpaceRunEnd(s, e + 1)
    IN  IF /\ w >= e + 1
           /\ w + 2 <= Len(s)
           /\ IsUpper(s[w + 1])
           /\ IsLower(s[w + 2])
        THEN NameExtend(s, LowerRunEnd(s, w + 2))
        ELSE e

\* A variant of NameSearch that stops after the first capitalized word
NameSearchOneWord(s) ==
    LET starts == {i \in 1..(Len(s) - 1) : IsUpper(s[i]) /\ IsLower(s[i + 1])}
    IN  IF starts = {} THEN None
        ELSE Some(SubSeq(s, Min(starts), LowerRunEnd(s, Min(starts) + 1)))

\* re.search(r'([A-Z][a-z]+(?:\s+[A-Z][a-z]+)*)', s): group 1 of the
\* leftmost match, or None.
NameSearch(s) ==
    LET starts == {i \in 1..(Len(s) - 1) : IsUpper(s[i]) /\ IsLower(s[i + 1])}
    IN  IF starts = {} THEN None
        ELSE LET i == Min(starts)
             IN  Some(SubSeq(s, i, NameExtend(s, LowerRunEnd(s, i + 1))))

DateSep1 == {"-", "/", zh_nian}
DateSep2 == {"-", "/", zh_yue}

\* The end of the match of
\* [0-9]{4}[-/年][0-9]{1,2}[-/月][0-9]{1,2}[日]? that starts at i, 0 if none.
FoundedEnd(s, i) ==
    LET digitsAt(p, n) == p + n - 1 <= Len(s) /\ \A k \in p..(p + n - 1) : IsDigit(s[k])
        \* from the second separator, at p, to the end of the match
        rest(p) ==
            IF p <= Len(s) /\ s[p] \in DateSep2 /\ digitsAt(p + 1, 1)
            THEN LET e == IF digitsAt(p + 1, 2) THEN p + 2 ELSE p + 1
                 IN  IF e + 1 <= Len(s) /\ s[e + 1] = zh_ri THEN e + 1 ELSE e
            ELSE 0
    IN  IF digitsAt(i, 4) /\ i + 4 <= Len(s) /\ s[i + 4] \in DateSep1
        THEN IF digitsAt(i + 5, 2) /\ rest(i + 7) # 0 THEN rest(i + 7)
             ELSE IF digitsAt(i + 5, 1) THEN rest(i + 6)
             ELSE 0
        ELSE 0

\* re.search(r'([0-9]{4}[-/年][0-9]{1,2}[-/月][0-9]{1,2}[日]?)', s)
FoundedSearch(s) ==
    LET starts == {i \in 1..Len(s) : FoundedEnd(s, i) # 0}
    IN  IF starts = {} THEN None
        ELSE Some(SubSeq(s, Min(starts), FoundedEnd(s, Min(starts))))

SectorLabel  == <<zh_hang, zh_ye>>
ValueLabel   == <<zh_jia, zh_zhi, zh_zhu, zh_zhang>>
FounderLabel == <<zh_chuang, zh_shi, zh_ren>>

\* label[：:] matches at i
LabelAt(s, i, label) ==
    /\ i + Len(label) <= Len(s)
    /\ SubSeq(s, i, i + Len(label) - 1) = label
    /\ s[i + Len(label)] \in {FullColon, ":"}

\* Where group 1 of \s*([^\n]+) starts when the pattern is tried at p: \s*
\* takes as much white space as leaves one character that is no line break;
\* 0 when there is no such character.
GroupStart(s, p) ==
    LET w == SpaceRunEnd(s, p)
        cands == {q \in p..(w + 1) : q <= Len(s) /\ s[q] # "\n"}
    IN  IF cands = {} THEN 0 ELSE Max(cands)

\* re.search(label + r'[：:]\s*([^\n]+)', s): group 1 of the leftmost match
LabelSearch(s, label) ==
    LET starts == {i \in 1..Len(s) :
                     LabelAt(s, i, label) /\ GroupStart(s, i + Len(label) + 1) # 0}
    IN  IF starts = {} THEN None
        ELSE LET g == GroupStart(s, Min(starts) + Len(label) + 1)
             IN  Some(SubSeq(s, g, LineEnd(s, g)))

\* _extract_key_elements: a mapping that holds only the keys that matched
ExtractKeyElements(txt, llm_response) ==
    LET name_match    == NameSearch(Prefix(txt, NameWindow))
        founded_match == FoundedSearch(llm_response)
        sector_match  == LabelSearch(llm_response, SectorLabel)
        value_match   == LabelSearch(llm_response, ValueLabel)
        keys == (IF name_match # None THEN {"company_name"} ELSE {})
                \cup (IF founded_match # None THEN {"founded"} ELSE {})
                \cup (IF sector_match # None THEN {"sector"} ELSE {})
                \cup (IF value_match # None THEN {"one_liner"} ELSE {})
    IN  [k \in keys |->
            CASE k = "company_name" -> name_match[1]
              [] k = "founded"      -> founded_match[1]
              [] k = "sector"       -> Strip(sector_match[1])
              [] k = "one_liner"    -> Strip(value_match[1])]


\* The elements of a finite set of integers, in increasing order
Ascending(S) ==
    [k \in 1..Cardinality(S) |->
        CHOOSE x \in S : Cardinality({y \in S : y < x}) = k - 1]

\* Where the matches of [一-龥]{2,} start: the pattern is greedy and a
\* search resumes behind the last match, so every match is a whole run of
\* two or more CJK characters
ChineseStarts(s) ==
    {i \in 1..Len(s) :
        /\ IsCJK(s[i])
        /\ (i = 1 \/ ~IsCJK(s[i - 1]))
        /\ CJKRunEnd(s, i) >= i + 1}

\* re.findall(r'[一-龥]{2,}', s), in text order
ChineseWords(s) ==
    LET order == Ascending(ChineseStarts(s))
    IN  [k \in 1..Len(order) |-> SubSeq(s, order[k], CJKRunEnd(s, order[k]))]

\* \b at the gap before position i (1 <= i <= Len(s) + 1)
WordBoundary(s, i) ==
    LET before == i > 1 /\ IsWordChar(s[i - 1])
        after  == i <= Len(s) /\ IsWordChar(s[i])
    IN  before # after

\* Where the matches of \b[A-Za-z]{3,}\b start.  Inside a run of letters
\* there is no \b, so a match is a whole run of three or more letters that
\* has a \b on both sides: a run next to a digit, an underscore or a CJK
\* character does not match.
EnglishStarts(s) ==
    {i \in 1..Len(s) :
        /\ IsAlpha(s[i])
        /\ (i = 1 \/ ~IsAlpha(s[i - 1]))
        /\ WordBoundary(s, i)
        /\ AlphaRunEnd(s, i) >= i + 2
        /\ WordBoundary(s, AlphaRunEnd(s, i) + 1)}

\* re.findall(r'\b[A-Za-z]{3,}\b', s), in text order
EnglishWords(s) ==
    LET order == Ascending(EnglishStarts(s))
    IN  [k \in 1..Len(order) |-> SubSeq(s, order[k], AlphaRunEnd(s, order[k]))]

StopWords == {<<zh_gong, zh_si>>, <<zh_wo, zh_men>>, <<zh_yi, zh_ji>>,
              <<zh_yi1, zh_ge>>, <<zh_de>>, <<zh_he>>, <<zh_shi4>>, <<zh_zai>>,
              <<zh_dui>>, <<zh_yu>>, <<zh_ji>>, <<zh_deng>>}

RECURSIVE WordFreq(_, _)
\* The loop that fills word_freq: a dict keeps its keys in the order of
\* their first insertion, so word_freq is a sequence of [word, freq].
WordFreq(words, acc) ==
    IF words = <<>> THEN acc
    ELSE LET word == Head(words)
             at   == {i \in 1..Len(acc) : acc[i].word = word}
         IN  IF word \notin StopWords /\ Len(word) > 1
             THEN IF at = {}
                  THEN WordFreq(Tail(words), Append(acc, [word |-> word, freq |-> 1]))
                  ELSE WordFreq(Tail(words),
                                [acc EXCEPT ![Min(at)].freq = @ + 1])
             ELSE WordFreq(Tail(words), acc)

\* list.sort(key=lambda x: x[1], reverse=True): a stable sort, so items of
\* equal weight keep their order.  Item i goes behind every heavier item
\* and every earlier item of the same weight.
SortByWeightDesc(items) ==
    LET n == Len(items)
        rank(i) == Cardinality({j \in 1..n : items[j].weight > items[i].weight})
                   + Cardinality({j \in 1..(i - 1) : items[j].weight = items[i].weight})
                   + 1
    IN  [k \in 1..n |-> items[CHOOSE i \in 1..n : rank(i) = k]]

\* max(word_freq.values())
MaxFreq(word_freq) == Max({word_freq[i].freq : i \in 1..Len(word_freq)})

\* A variant of Weigh that divides by one more than the maximum
WeighSmoothed(word_freq) ==
    [i \in 1..Len(word_freq) |->
        [term   |-> word_freq[i].word,
         weight |-> FixDiv(word_freq[i].freq, MaxFreq(word_freq) + 1)]]

\* freq / max_freq for every word of word_freq
Weigh(word_freq) ==
    [i \in 1..Len(word_freq) |->
        [term   |-> word_freq[i].word,
         weight |-> FixDiv(word_freq[i].freq, MaxFreq(word_freq))]]

\* The words the frequency count runs over: chinese_words + english_words
AllWords(all_text) == ChineseWords(all_text) \o EnglishWords(all_text)

\* A variant of ExtractKeywords that returns the whole sorted list
ExtractKeywordsUncut(txt, llm_response) ==
    LET all_text  == txt \o <<" ">> \o llm_response
        word_freq == WordFreq(AllWords(all_text), <<>>)
    IN  IF word_freq # <<>> THEN SortByWeightDesc(Weigh(word_freq)) ELSE <<>>

\* _extract_keywords
ExtractKeywords(txt, llm_response) ==
    LET all_text  == txt \o <<" ">> \o llm_response
        word_freq == WordFreq(AllWords(all_text), <<>>)
    IN  IF word_freq # <<>>
        THEN Prefix(SortByWeightDesc(Weigh(word_freq)), KeywordLimit)
        ELSE <<>>

CompanyPrefix == <<"c", "o", "m", "p", "a", "n", "y", ":">>
PersonPrefix  == <<"p", "e", "r", "s", "o", "n", ":">>

\* The graph of a company name and of a founder match, as _build_graph
\* lays it out
GraphOf(company_name, founder_match, founder_name) ==
    LET company_id   == CompanyPrefix \o Lower(company_name)
        person_id    == PersonPrefix \o Lower(founder_name)
        company_node == [id |-> company_id, label |-> company_name, type |-> <<"Company">>]
        person_node  == [id |-> person_id, label |-> founder_name, type |-> <<"Person">>]
        founded_by   == [source |-> company_id, target |-> person_id, rel |-> <<"FOUNDED_BY">>]
    IN  IF company_name # <<>>
        THEN IF founder_match # None
             THEN [nodes |-> <<company_node, person_node>>, edges |-> <<founded_by>>]
             ELSE [nodes |-> <<company_node>>, edges |-> <<>>]
        ELSE [nodes |-> <<>>, edges |-> <<>>]

\* A variant of BuildGraph that searches the whole text for the name
BuildGraphWholeText(txt, llm_response) ==
    LET name_match    == NameSearch(txt)
        founder_match == LabelSearch(llm_response, FounderLabel)
    IN  GraphOf(IF name_match # None THEN name_match[1] ELSE <<>>,
                founder_match, Strip(founder_match[1]))

\* A variant of BuildGraph that does not strip the founder name
BuildGraphUnstripped(txt, llm_response) ==
    LET name_match    == NameSearch(Prefix(txt, NameWindow))
        founder_match == LabelSearch(llm_response, FounderLabel)
    IN  GraphOf(IF name_match # None THEN name_match[1] ELSE <<>>,
                founder_match, founder_match[1])

\* A variant of BuildGraph whose edge names the person by the founder name as
\* written, not lower-cased
BuildGraphTargetAsWritten(txt, llm_response) ==
    LET g == GraphOf(IF NameSearch(Prefix(txt, NameWindow)) # None
                     THEN NameSearch(Prefix(txt, NameWindow))[1] ELSE <<>>,
                     LabelSearch(llm_response, FounderLabel),
                     Strip(LabelSearch(llm_response, FounderLabel)[1]))
    IN  [nodes |-> g.nodes,
         edges |-> [k \in 1..Len(g.edges) |->
                       [g.edges[k] EXCEPT !.target = PersonPrefix \o g.nodes[2].label]]]

\* _build_graph
BuildGraph(txt, llm_response) ==
    LET name_match    == NameSearch(Prefix(txt, NameWindow))
        company_name  == IF name_match # None THEN name_match[1] ELSE <<>>
        founder_match == LabelSearch(llm_response, FounderLabel)
        founder_name  == Strip(founder_match[1])
    IN  GraphOf(company_name, founder_match, founder_name)

-----------------------------------------------------------------------------
(* src/report_generator.py: the visualizations.  caps says which of the    *)
(* optional imports of lines 19-34 succeeded: plt (matplotlib and numpy),  *)
(* nx (networkx) and tmpl (jinja2).                                        *)

Caps == [plt : BOOLEAN, nx : BOOLEAN, tmpl : BOOLEAN]

\* The truth value Python gives an Optional[str]: None and "" are false
Truthy(opt) == opt # None /\ opt[1] # <<>>

\* d.get(k, default) of a mapping d
Get(d, k, default) == IF k \in DOMAIN d THEN d[k] ELSE default

\* _fig_to_base64: the PNG of the figure in base64, a non-empty string
\* that holds no line break
FigToBase64(figure) == <<"base64-png", figure.title>>

\* The five dimensions of the radar, in the order of dims_order
DimsOrder == <<"people", "market", "traction", "moat", "financing">>

\* A variant of RenderRadarBase64 that plots whatever keys the mapping has
RenderRadarAnyKey(scoring, c) ==
    IF DOMAIN scoring = {} \/ ~c.plt THEN None
    ELSE Some(FigToBase64([title |-> "radar", labels |-> DOMAIN scoring]))

\* render_radar_base64
RenderRadarBase64(scoring, c) ==
    IF DOMAIN scoring = {} \/ ~c.plt THEN None
    ELSE LET present == {i \in 1..Len(DimsOrder) : DimsOrder[i] \in DOMAIN scoring}
             order   == Ascending(present)
             labels  == [k \in 1..Len(order) |-> DimsOrder[order[k]]]
             values  == [k \in 1..Len(order) |-> scoring[DimsOrder[order[k]]]]
         IN  IF values = <<>> THEN None
             ELSE Some(FigToBase64([title  |-> "radar",
                                    labels |-> labels,
                                    \* the first point again closes the loop
                                    values |-> values \o SubSeq(values, 1, 1)]))

\* str.replace(":", "_").replace("-", "_")
Sanitize(nid) == [i \in 1..Len(nid) |-> IF nid[i] \in {":", "-"} THEN "_" ELSE nid[i]]

\* str(i) for 0 <= i <= 9
Digit(i) == CASE i = 0 -> "0" [] i = 1 -> "1" [] i = 2 -> "2" [] i = 3 -> "3"
              [] i = 4 -> "4" [] i = 5 -> "5" [] i = 6 -> "6" [] i = 7 -> "7"
              [] i = 8 -> "8" [] i = 9 -> "9"

\* n.get("id", f"n{i}") of the node at the 0-based index i
MermaidNodeId(g, k) == Get(g.nodes[k], "id", <<"n", Digit(k - 1)>>)

\* node_ids after the first loop: the ids that have a declaration
MermaidNodeIds(g) == {MermaidNodeId(g, k) : k \in 1..Len(g.nodes)}

\* A variant of MermaidKeptEdges that only asks for ends that are not empty
MermaidKeptEdgesUnchecked(g) ==
    {k \in 1..Len(g.edges) :
        /\ Get(g.edges[k], "source", <<>>) # <<>>
        /\ Get(g.edges[k], "target", <<>>) # <<>>}

\* The indexes of the edges that get a line: both node_ids.get(...) are
\* truthy, that is, both ends are keys of node_ids whose value is not ""
MermaidKeptEdges(g) ==
    {k \in 1..Len(g.edges) :
        LET src == Get(g.edges[k], "source", <<>>)
            tgt == Get(g.edges[k], "target", <<>>)
        IN  /\ src \in MermaidNodeIds(g) /\ Sanitize(src) # <<>>
            /\ tgt \in MermaidNodeIds(g) /\ Sanitize(tgt) # <<>>}

\* The lines of _graph_to_mermaid behind "graph TD", as records: a node
\* declaration [kind, id, label, type] per node, then an edge line
\* [kind, source, target, rel] per kept edge
MermaidLines(g) ==
    LET node(k) == [kind  |-> "node",
                    id    |-> Sanitize(MermaidNodeId(g, k)),
                    label |-> Get(g.nodes[k], "label", MermaidNodeId(g, k)),
                    type  |-> Get(g.nodes[k], "type", <<"Node">>),
                    source |-> <<>>, target |-> <<>>, rel |-> <<>>]
        kept    == Ascending(MermaidKeptEdges(g))
        edge(k) == [kind   |-> "edge",
                    id |-> <<>>, label |-> <<>>, type |-> <<>>,
                    source |-> Sanitize(g.edges[k].source),
                    target |-> Sanitize(g.edges[k].target),
                    rel    |-> Get(g.edges[k], "rel", <<>>)]
    IN  [k \in 1..Len(g.nodes) |-> node(k)] \o [k \in 1..Len(kept) |-> edge(kept[k])]

\* One line of the diagram as text
MermaidLineText(l) ==
    IF l.kind = "node"
    THEN <<"    ">> \o l.id \o <<"[\"">> \o l.label \o <<" (">> \o l.type \o <<")\"]">>
    ELSE IF l.rel # <<>>
         THEN <<"    ">> \o l.source \o <<" -->|">> \o l.rel \o <<"| ">> \o l.target
         ELSE <<"    ">> \o l.source \o <<" --> ">> \o l.target

RECURSIVE JoinLines(_)
\* "\n".join(lines)
JoinLines(lines) ==
    IF lines = <<>> THEN <<>>
    ELSE IF Len(lines) = 1 THEN lines[1]
    ELSE lines[1] \o <<"\n">> \o JoinLines(Tail(lines))

\* _graph_to_mermaid
GraphToMermaid(g) ==
    LET lines == MermaidLines(g)
    IN  JoinLines(<<<<"graph TD">>>> \o [k \in 1..Len(lines) |-> MermaidLineText(lines[k])])

\* The DiGraph of render_graph_base64: add_node for every node, add_edge
\* for every edge whose ends are truthy; add_edge also adds the ends that
\* are no node yet.
DiGraphOf(g) ==
    LET kept  == {k \in 1..Len(g.edges) :
                    /\ Get(g.edges[k], "source", <<>>) # <<>>
                    /\ Get(g.edges[k], "target", <<>>) # <<>>}
        edges == {<<g.edges[k].source, g.edges[k].target>> : k \in kept}
    IN  [nodes |-> {Get(g.nodes[k], "id", <<>>) : k \in 1..Len(g.nodes)}
                   \cup {e[1] : e \in edges} \cup {e[2] : e \in edges},
         edges |-> edges]

\* render_graph_base64: the pair (base64_png, mermaid)
RenderGraphBase64(g, c) ==
    IF g.nodes = <<>> /\ g.edges = <<>> THEN <<None, None>>
    ELSE IF ~c.nx \/ ~c.plt THEN <<None, Some(GraphToMermaid(g))>>
    ELSE <<Some(FigToBase64([title |-> "graph", graph |-> DiGraphOf(g)])),
           Some(GraphToMermaid(g))>>

\* s[:k] for any integer k
SlicePrefix(s, k) == IF k >= 0 THEN Prefix(s, k) ELSE Prefix(s, Max({Len(s) + k, 0}))

DefaultTopK == 30

\* A variant of Normalize without the epsilon
NormalizeNoEps(w, wmin, wmax) == [num |-> w - wmin, den |-> wmax - wmin]

\* (w - wmin) / (wmax - wmin + 1e-9), kept as numerator and denominator
Normalize(w, wmin, wmax) == [num |-> w - wmin, den |-> wmax - wmin + Eps]

\* render_keyword_cloud_base64: what it selects (kws), the normalized
\* weights (norm) and what it returns; a zero denominator raises
\* ZeroDivisionError.
RenderKeywordCloudBase64(kwlist, topk, c) ==
    LET kws     == SlicePrefix(SortByWeightDesc(kwlist), topk)
        weights == {kws[i].weight : i \in 1..Len(kws)}
        norm    == [i \in 1..Len(kws) |-> Normalize(kws[i].weight, Min(weights), Max(weights))]
    IN  IF ~c.plt \/ kwlist = <<>>
        THEN [kws |-> <<>>, norm |-> <<>>, raised |-> FALSE, result |-> None]
        ELSE IF kws = <<>>
        THEN [kws |-> kws, norm |-> <<>>, raised |-> FALSE, result |-> None]
        ELSE IF \E i \in 1..Len(norm) : norm[i].den = 0
        THEN [kws |-> kws, norm |-> norm, raised |-> TRUE, result |-> None]
        ELSE [kws |-> kws, norm |-> norm, raised |-> FALSE,
              result |-> Some(FigToBase64([title |-> "keywords", words |-> kws, sizes |-> norm]))]


-----------------------------------------------------------------------------
(* src/report_generator.py: the Markdown report                            *)

\* A variant of OrElse that forgets the alternative
OrElseNothing(a, b) == a

\* a or b, for strings
OrElse(a, b) == IF a # <<>> THEN a ELSE b

NA     == <<"N/A">>
EmDash == <<"u2014">>

\* The company name render_markdown shows
ReportName(ke) ==
    OrElse(Get(ke, "company_name", <<>>), OrElse(Get(ke, "name", <<>>), NA))

TitlePrefix   == "# Startup analysis report - "
NoGraphData   == "> no graph data"
FenceOpen     == "~~~mermaid"
FenceClose    == "~~~"
GraphHeading  == "## Relationship graph"
RadarHeading  == "## Investment score radar"
CloudHeading  == "## Keyword visualization"
SourceHeading == "## Evidence and sources"

\* One row of the sources table
SourceRow(src) ==
    <<"| ">> \o Get(src, "title", EmDash) \o <<" | ">> \o Get(src, "url", EmDash)
    \o <<" | ">> \o Get(src, "level", EmDash) \o <<" | ">>
    \o Get(src, "captured_at", EmDash) \o <<" |">>

\* The list md of render_markdown: one entry per md.append
MarkdownItems(a, radar_b64, graph_b64, mermaid, cloud_b64) ==
    LET ke        == a.key_elements
        name      == ReportName(ke)
        founded   == OrElse(Get(ke, "founded", <<>>), OrElse(Get(ke, "founded_date", <<>>), NA))
        sector    == OrElse(Get(ke, "sector", <<>>), OrElse(Get(ke, "industry", <<>>), NA))
        one_liner == OrElse(Get(ke, "one_liner", <<>>), Get(ke, "value_proposition", <<>>))
        desc      == OrElse(Get(ke, "description", <<>>), Get(ke, "product_description", <<>>))
        head      == << <<TitlePrefix>> \o name,
                        <<>>,
                        <<"**Generated at**: ">> \o a.extracted_at,
                        <<>>,
                        <<"## Core elements">>,
                        <<>>,
                        <<"| Element | Content |">>,
                        <<"|---|---|">>,
                        <<"| Company name | ">> \o name \o <<" |">>,
                        <<"| Founded | ">> \o founded \o <<" |">>,
                        <<"| Sector | ">> \o sector \o <<" |">>,
                        <<"| Value proposition | ">> \o OrElse(one_liner, EmDash) \o <<" |">>,
                        <<"| Description | ">> \o OrElse(desc, EmDash) \o <<" |">>,
                        <<>> >>
        radar     == IF Truthy(radar_b64)
                     THEN << <<RadarHeading>>,
                             <<"![radar](data:image/png;base64,">> \o radar_b64[1] \o <<")">>,
                             <<>> >>
                     ELSE <<>>
        raw       == << <<"## LLM analysis (original text)">>,
                        <<>>,
                        Strip(a.raw_response),
                        <<>> >>
        graphsec  == << <<GraphHeading>> >>
                     \o (IF Truthy(graph_b64)
                         THEN << <<"![graph](data:image/png;base64,">> \o graph_b64[1] \o <<")">> >>
                         ELSE IF Truthy(mermaid)
                         THEN << <<FenceOpen>>, mermaid[1], <<FenceClose>> >>
                         ELSE << <<NoGraphData>> >>)
                     \o << <<>> >>
        cloud     == IF Truthy(cloud_b64)
                     THEN << <<CloudHeading>>,
                             <<"![keywords](data:image/png;base64,">> \o cloud_b64[1] \o <<")">>,
                             <<>> >>
                     ELSE <<>>
        srcs      == IF a.sources # <<>>
                     THEN << <<SourceHeading>>,
                             <<>>,
                             <<"| Title | URL | Level | Captured at |">>,
                             <<"|---|---|---|---|">> >>
                          \o [i \in 1..Len(a.sources) |-> SourceRow(a.sources[i])]
                          \o << <<>> >>
                     ELSE <<>>
        foot      == << <<"---">>,
                        <<"**Data and method**">>,
                        <<>>,
                        <<"_For reference only, not investment advice._">> >>
    IN  head \o radar \o raw \o graphsec \o cloud \o srcs \o foot

\* A variant of RenderMarkdown that hands the keyword image and the radar
\* image over in each other's place
RenderMarkdownMixedUp(a, radar_b64, graph_b64, mermaid, cloud_b64) ==
    JoinLines(MarkdownItems(a, cloud_b64, graph_b64, mermaid, radar_b64))

\* render_markdown
RenderMarkdown(a, radar_b64, graph_b64, mermaid, cloud_b64) ==
    JoinLines(MarkdownItems(a, radar_b64, graph_b64, mermaid, cloud_b64))

-----------------------------------------------------------------------------
(* src/report_generator.py: the HTML report.  The document is the sequence *)
(* of the template's literal pieces (one token each; white space and the   *)
(* style sheet are left out) and of the characters of the values put in.   *)
(* The values of the model hold no templating syntax.                      *)

\* The pieces of a template: literal text, {{ name }}, {{ s.field or '—' }}
\* and the control tags
Lit(s)   == [k |-> "text", s |-> s]
Var(s)   == [k |-> "var", s |-> s]
Cell(s)  == [k |-> "cell", s |-> s]
Tag(k, s) == [k |-> k, s |-> s]

\* _HTML_TEMPLATE
HtmlTemplate ==
    << Lit("<title>"), Var("title"), Lit("</title>"),
       Lit("<h1>"), Var("company_name"), Lit("</h1>"),
       Lit("<div generated>"), Var("extracted_at"), Lit("</div>"),
       Lit("<h2>core elements</h2>"),
       Lit("<th>name</th>"), Var("company_name"),
       Lit("<th>founded</th>"), Var("founded"),
       Lit("<th>sector</th>"), Var("sector"),
       Lit("<th>value proposition</th>"), Var("one_liner"),
       Lit("<th>description</th>"), Var("desc"),
       Lit("<h2>radar</h2>"),
       Tag("if", "radar_b64"),
           Lit("<img radar>"), Var("radar_b64"),
       Tag("else", ""),
           Lit("<div>no score</div>"),
       Tag("endif", ""),
       Lit("<h2>LLM analysis</h2>"), Lit("<pre>"), Var("raw_response"), Lit("</pre>"),
       Lit("<h2>graph</h2>"),
       Tag("if", "graph_b64"),
           Lit("<img graph>"), Var("graph_b64"),
       Tag("elif", "mermaid"),
           Lit("<pre mermaid>"), Var("mermaid"), Lit("</pre>"),
           Lit("<div>mermaid hint</div>"),
       Tag("else", ""),
           Lit("<div>no graph data</div>"),
       Tag("endif", ""),
       Lit("<h2>keywords</h2>"),
       Tag("if", "cloud_b64"),
           Lit("<img keywords>"), Var("cloud_b64"),
       Tag("else", ""),
           Lit("<div>no keywords</div>"),
       Tag("endif", ""),
       Lit("<h2>sources</h2>"),
       Tag("if", "sources"),
           Lit("<table sources>"),
           Tag("for", "sources"),
               Lit("<tr>"),
               Lit("<td>"), Cell("title"),
               Lit("<td>"), Cell("url"),
               Lit("<td>"), Cell("level"),
               Lit("<td>"), Cell("captured_at"),
               Lit("</tr>"),
           Tag("endfor", ""),
           Lit("</table>"),
       Tag("else", ""),
           Lit("<div>no sources</div>"),
       Tag("endif", ""),
       Lit("<footer>") >>

\* str(v if v is not None else "") of an optional string
StrOf(opt) == IF opt = None THEN <<>> ELSE opt[1]

\* The dict context of render_html; the optional images are kept as they
\* are given, the list of sources under "sources"
HtmlContext(a, radar_b64, graph_b64, mermaid, cloud_b64) ==
    LET ke == a.key_elements
    IN  [title        |-> Some(<<"Startup analysis report - ">> \o ReportName(ke)),
         company_name |-> Some(ReportName(ke)),
         founded      |-> Some(OrElse(Get(ke, "founded", <<>>),
                                      OrElse(Get(ke, "founded_date", <<>>), NA))),
         sector       |-> Some(OrElse(Get(ke, "sector", <<>>),
                                      OrElse(Get(ke, "industry", <<>>), NA))),
         one_liner    |-> Some(OrElse(Get(ke, "one_liner", <<>>),
                                      OrElse(Get(ke, "value_proposition", <<>>), EmDash))),
         desc         |-> Some(OrElse(Get(ke, "description", <<>>),
                                      OrElse(Get(ke, "product_description", <<>>), EmDash))),
         extracted_at |-> Some(a.extracted_at),
         radar_b64    |-> radar_b64,
         graph_b64    |-> graph_b64,
         mermaid      |-> mermaid,
         cloud_b64    |-> cloud_b64,
         raw_response |-> Some(a.raw_response),
         sources      |-> a.sources]

\* The test of an if or elif tag
TagHolds(tag, ctx) ==
    IF tag.s = "sources" THEN ctx.sources # <<>> ELSE Truthy(ctx[tag.s])

\* A variant of TemplateActive that reads elif as if
TemplateActiveElifAsIf(tpl, i, ctx) ==
    LET tags == {j \in 1..(i - 1) : tpl[j].k \in {"if", "elif", "else", "endif"}}
        last == Max(tags)
        open == Max({j \in tags : tpl[j].k \in {"if", "elif"}})
    IN  \/ tags = {}
        \/ tpl[last].k = "endif"
        \/ tpl[last].k \in {"if", "elif"} /\ TagHolds(tpl[last], ctx)
        \/ tpl[last].k = "else" /\ ~TagHolds(tpl[open], ctx)

\* Jinja renders piece i of the template: it stands outside every
\* if ... endif, or in the first branch of its if ... elif ... else whose
\* test holds (the template nests no if in an if)
TemplateActive(tpl, i, ctx) ==
    LET tags  == {j \in 1..(i - 1) : tpl[j].k \in {"if", "elif", "else", "endif"}}
        last  == Max(tags)
        open  == Max({j \in tags : tpl[j].k = "if"})
        tests == {j \in tags : j >= open /\ tpl[j].k \in {"if", "elif"}}
    IN  \/ tags = {}
        \/ tpl[last].k = "endif"
        \/ /\ tpl[last].k \in {"if", "elif"}
           /\ TagHolds(tpl[last], ctx)
           /\ \A j \in tests \ {last} : ~TagHolds(tpl[j], ctx)
        \/ /\ tpl[last].k = "else"
           /\ \A j \in tests : ~TagHolds(tpl[j], ctx)

\* What Jinja puts out for piece i, s being the source of the loop round
\* (any value outside the loop)
TemplateEmit(tpl, i, ctx, s) ==
    IF ~TemplateActive(tpl, i, ctx) THEN <<>>
    ELSE CASE tpl[i].k = "text" -> <<tpl[i].s>>
           [] tpl[i].k = "var"  -> StrOf(ctx[tpl[i].s])
           [] tpl[i].k = "cell" -> OrElse(Get(s, tpl[i].s, <<>>), EmDash)
           [] OTHER -> <<>>

\* Template(_HTML_TEMPLATE).render(**context): the pieces before the loop,
\* the loop body once for every source, the pieces after the loop
TemplateRender(tpl, ctx) ==
    LET from == CHOOSE j \in 1..Len(tpl) : tpl[j].k = "for"
        to   == CHOOSE j \in 1..Len(tpl) : tpl[j].k = "endfor"
        round(s) == Flatten([i \in 1..(to - from - 1) |-> TemplateEmit(tpl, from + i, ctx, s)])
    IN  Flatten([i \in 1..(from - 1) |-> TemplateEmit(tpl, i, ctx, <<>>)])
        \o (IF TemplateActive(tpl, from, ctx)
            THEN Flatten([n \in 1..Len(ctx.sources) |-> round(ctx.sources[n])])
            ELSE <<>>)
        \o Flatten([i \in 1..(Len(tpl) - to) |-> TemplateEmit(tpl, to + i, ctx, <<>>)])

\* The path of render_html without jinja2: every {{ key }} of the context
\* is replaced by the value, then every {% ... %} and every {{ ... }} that
\* is left is deleted
TemplateSubstitute(tpl, ctx) ==
    Flatten([i \in 1..Len(tpl) |->
        CASE tpl[i].k = "text" -> <<tpl[i].s>>
          [] tpl[i].k = "var" /\ tpl[i].s \in DOMAIN ctx /\ tpl[i].s # "sources"
                               -> StrOf(ctx[tpl[i].s])
          [] OTHER -> <<>>])

\* render_html
RenderHtml(a, radar_b64, graph_b64, mermaid, cloud_b64, c) ==
    LET context == HtmlContext(a, radar_b64, graph_b64, mermaid, cloud_b64)
    IN  IF c.tmpl THEN TemplateRender(HtmlTemplate, context)
        ELSE TemplateSubstitute(HtmlTemplate, context)

\* ReportGeneratorPro._prepare_visuals.  With no keywords in the record it
\* calls ReportGeneratorPro._auto_keywords, which the class does not define:
\* AttributeError.
PrepareVisuals(a, c) ==
    LET radar_b64 == IF DOMAIN a.scoring # {} THEN RenderRadarBase64(a.scoring, c) ELSE None
        graph_out == RenderGraphBase64(a.graph, c)
        cloud     == RenderKeywordCloudBase64(a.keywords, DefaultTopK, c)
    IN  IF a.keywords = <<>> \/ cloud.raised
        THEN [raised |-> TRUE, radar_b64 |-> radar_b64, graph_b64 |-> graph_out[1],
              mermaid |-> graph_out[2], cloud_b64 |-> None]
        ELSE [raised |-> FALSE, radar_b64 |-> radar_b64, graph_b64 |-> graph_out[1],
              mermaid |-> graph_out[2], cloud_b64 |-> cloud.result]

\* ReportGeneratorPro.to_markdown: the document, or raised when
\* _prepare_visuals raises
ToMarkdown(a, c) ==
    LET vis == PrepareVisuals(a, c)
    IN  IF vis.raised THEN [raised |-> TRUE, doc |-> <<>>]
        ELSE [raised |-> FALSE,
              doc |-> RenderMarkdown(a, vis.radar_b64, vis.graph_b64, vis.mermaid, vis.cloud_b64)]

SourceTextLimit == 500

\* What str(e) gives for the failures of the LLM request that the model
\* distinguishes
Causes == {<<"Connection error.">>, <<"Error code: 401">>}

\* llm_client.py line 66: the failure call_llm raises for a failed request
LLMFailure(cause) == <<"LLM call failed: ">> \o cause

\* A variant of AnalysisFailure that drops the cause
AnalysisFailureBare(cause) == <<"analysis failed: ">>

\* analyzer.py line 141: the failure analyze_startup raises
AnalysisFailure(cause) == <<"analysis failed: ">> \o cause

\* The record analyze_startup builds from the three extractions
AssembleRecord(txt, llm_response, ke, kw, g) ==
    [extracted_at |-> <<"YYYY-MM-DD HH:MM:SS">>,
     source_text  |-> IF Len(txt) > SourceTextLimit
                      THEN Prefix(txt, SourceTextLimit) \o <<".", ".", ".">>
                      ELSE txt,
     raw_response |-> llm_response,
     key_elements |-> ke,
     graph        |-> g,
     scoring      |-> <<>>,
     keywords     |-> kw,
     sources      |-> << [title |-> <<"source text analysis">>, url |-> NA,
                          level |-> <<"L", "1">>, captured_at |-> <<"YYYY-MM-DD">>] >>]


-----------------------------------------------------------------------------
(* The client handle of src/llm_client.py and of src/startup_analyzer.py,  *)
(* ReportGeneratorPro.to_html and save_all, and what main.py passes        *)

\* a or b for optional strings: b when a is None or empty
OrOpt(a, b) == IF Truthy(a) THEN a ELSE b

ConfigurationError ==
    [type |-> "ValueError", msg |-> <<"OPENAI_API_KEY or api_key is required">>]
\* What the service library raises when it is given no key and rejects that
ServiceClientError ==
    [type |-> "OpenAIError", msg |-> <<"The api_key client option must be set">>]

\* llm_client.LLMClient.__init__: the failure it raises, if any, and the
\* service client it created, if any
LLMClientInit(api_key, env_key) ==
    LET key == OrOpt(api_key, env_key)
    IN  IF ~Truthy(key)
        THEN [raised |-> Some(ConfigurationError), client |-> None]
        ELSE [raised |-> None, client |-> Some([api_key |-> key])]

\* startup_analyzer.LLMClient.__init__: the service client is created from
\* the key before the key is examined.  Given no key at all the library
\* either rejects it (strict) or builds a client without one.
LegacyLLMClientInit(api_key, env_key, strict) ==
    LET key == OrOpt(api_key, env_key)
    IN  IF key = None /\ strict
        THEN [raised |-> Some(ServiceClientError), client |-> None]
        ELSE IF ~Truthy(key)
        THEN [raised |-> Some(ConfigurationError), client |-> Some([api_key |-> key])]
        ELSE [raised |-> None, client |-> Some([api_key |-> key])]

\* What a stream delivers: a chunk whose delta carries no content, empty
\* content or text, a chunk without choices, or the failure of the stream
Delta(content) == [kind |-> "delta", content |-> content]
Fragments ==
    {Delta(None), Delta(Some(<<>>)), Delta(Some(<<"a">>)), Delta(Some(<<"b", "c">>)),
     [kind |-> "nochoice", content |-> None], [kind |-> "error", content |-> None]}

\* A variant of Consume that puts the content in front
ConsumeInFront(full_response, chunk) ==
    IF Truthy(chunk.content) THEN chunk.content[1] \o full_response ELSE full_response

\* llm_client.py lines 56-57 and 59: full_response after the chunk
Consume(full_response, chunk) ==
    IF Truthy(chunk.content) THEN full_response \o chunk.content[1] ELSE full_response

\* llm_client.py lines 56-58: what has been printed after the chunk
Echo(printed, chunk) ==
    IF Truthy(chunk.content) THEN Append(printed, chunk.content[1]) ELSE printed

MsgStreaming == <<"AI analysing...">>
IndexOutOfRange == <<"list index out of range">>

\* ReportGeneratorPro.to_html: the document, or raised when
\* _prepare_visuals raises
ToHtml(a, c) ==
    LET vis == PrepareVisuals(a, c)
    IN  IF vis.raised THEN [raised |-> TRUE, doc |-> <<>>]
        ELSE [raised |-> FALSE,
              doc |-> RenderHtml(a, vis.radar_b64, vis.graph_b64, vis.mermaid,
                                 vis.cloud_b64, c)]

\* How writing a file ends: written, open() fails and there is no file, or
\* write() fails and the file that open() truncated stays empty
WriteOutcomes == {"ok", "open", "write"}

MissingAutoKeywords ==
    [type |-> "AttributeError", msg |-> <<"_auto_keywords">>]
WriteFailed(path) == [type |-> "OSError", msg |-> <<path>>]

\* A variant of WriteFile that absorbs the failure
WriteFileQuiet(fs, path, doc, how) ==
    [files  |-> IF how = "ok" THEN (path :> doc) @@ fs
                ELSE IF how = "write" THEN (path :> <<>>) @@ fs
                ELSE fs,
     raised |-> None]

\* with open(path, "w") as f: f.write(doc)
WriteFile(fs, path, doc, how) ==
    [files  |-> IF how = "ok" THEN (path :> doc) @@ fs
                ELSE IF how = "write" THEN (path :> <<>>) @@ fs
                ELSE fs,
     raised |-> IF how = "ok" THEN None ELSE Some(WriteFailed(path))]

\* The body of save_all, given what to_markdown and to_html give for the
\* record: the files afterwards, the failure that left it, what it printed
\* and what it returned
SaveDocuments(md_doc, html_doc, md_path, html_path, how_md, how_html, fs) ==
    LET md_out   == WriteFile(fs, md_path, md_doc.doc, how_md)
        html_out == WriteFile(md_out.files, html_path, html_doc.doc, how_html)
    IN  IF md_doc.raised
        THEN [files |-> fs, raised |-> Some(MissingAutoKeywords),
              out |-> <<>>, result |-> None]
        ELSE IF md_out.raised # None
        THEN [files |-> md_out.files, raised |-> md_out.raised,
              out |-> <<>>, result |-> None]
        ELSE IF html_doc.raised
        THEN [files |-> md_out.files, raised |-> Some(MissingAutoKeywords),
              out |-> <<>>, result |-> None]
        ELSE IF html_out.raised # None
        THEN [files |-> html_out.files, raised |-> html_out.raised,
              out |-> <<>>, result |-> None]
        ELSE [files |-> html_out.files, raised |-> None,
              out |-> << <<"reports generated:">>, <<"- Markdown: ", md_path>>,
                         <<"- HTML:     ", html_path>> >>,
              result |-> Some([markdown |-> md_path, html |-> html_path])]

\* ReportGeneratorPro.save_all on the files fs
SaveAll(a, c, md_path, html_path, how_md, how_html, fs) ==
    CHOOSE saved \in {SaveDocuments(md_doc, html_doc, md_path, html_path,
                                    how_md, how_html, fs) :
                         md_doc \in {ToMarkdown(a, c)}, html_doc \in {ToHtml(a, c)}} : TRUE

\* The parameters of save_all and the keyword arguments main passes to it
SaveAllParams == {"ana", "md_path", "html_path"}
MainKeywordArgs == {"md_path", "html_path", "pdf_path", "pptx_path"}
UnexpectedKeyword ==
    [type |-> "TypeError", msg |-> <<"save_all() got an unexpected keyword argument">>]

\* A call with keyword arguments binds when the function has each of them
\* as a parameter
Binds(params, kwargs) == kwargs \subseteq params

DefaultMdPath   == "startup_report.md"
DefaultHtmlPath == "startup_report.html"
MainMdPath      == "startup_analysis_report.md"
MainHtmlPath    == "startup_analysis_report.html"

\* The lines main prints
MsgStart      == <<"analyzer starting">>
MsgNoKey      == <<"error: set OPENAI_API_KEY">>
MsgNoKeyHint  == <<"add OPENAI_API_KEY=your_api_key_here to .env">>
MsgAnalyzing  == <<"analysis begins">>
MsgReporting  == <<"generating reports">>
MsgComplete   == <<"analysis complete">>
MsgError(e)   == <<"error during analysis: ">> \o e.msg

-----------------------------------------------------------------------------
(* The inputs of the analysis: a source text and the text the LLM          *)
(* returned.  A text is a sequence of at most MaxTextPieces (source) or    *)
(* MaxRespPieces (response) pieces, or one of a few fixed texts.           *)

MaxTextPieces == 3
MaxRespPieces == 3

\* a capitalized word, a lower-case word, a blank, a line break, a CJK word
TextPieces == {<<"A", "b">>, <<"c", "d", "e">>, <<" ">>, <<"\n">>, <<zh_hang, zh_ye>>}

\* two labels with their colon, a blank, a line break, a value
RespPieces == {SectorLabel \o <<":">>, FounderLabel \o <<FullColon>>,
               <<" ">>, <<"\n">>, <<"X", "y", "z">>}

RECURSIVE PieceSeqs(_, _)
\* The sequences of at most n pieces
PieceSeqs(pieces, n) ==
    IF n = 0 THEN {<<>>}
    ELSE LET shorter == PieceSeqs(pieces, n - 1)
         IN  shorter \cup {Append(ps, p) : ps \in shorter, p \in pieces}

TextsOf(pieces, n) == {Flatten(ps) : ps \in PieceSeqs(pieces, n)}

\* Scenario A of the specification
ScenarioASource ==
    <<"A", "c", "m", "e", " ", "R", "o", "b", "o", "t", "i", "c", "s", " ",
      "b", "u", "i", "l", "d", "s", " ", "w", "a", "r", "e", "h", "o", "u", "s", "e",
      " ", "r", "o", "b", "o", "t", "s", ".">>
ScenarioAResponse ==
    <<zh_hang, zh_ye, ":", " ", "R", "o", "b", "o", "t", "i", "c", "s", "\n",
      zh_jia, zh_zhi, zh_zhu, zh_zhang, ":", " ",
      "F", "a", "s", "t", "e", "r", " ", "p", "i", "c", "k", "i", "n", "g", "\n",
      zh_chuang, zh_shi, zh_ren, ":", " ", "J", "a", "n", "e", " ", "D", "o", "e">>

\* More distinct words than the keyword list keeps: the words "w" x y for
\* x, y among the first five letters, the first of them three times and the
\* second twice, and a CJK word at the end
ManyWords ==
    LET word(i) == <<"w", LowerSeq[(i \div 5) + 1], LowerSeq[(i % 5) + 1], " ">>
    IN  Flatten([i \in 1..25 |-> word(i - 1)]) \o word(0) \o word(1) \o word(0)
        \o SectorLabel

\* A capitalized word that straddles the end of the name window, and its
\* neighbours
PaddedName(n) == [i \in 1..n |-> " "] \o <<"A", "b", "c", " ", "D", "e">>

\* A response with the English label, and responses with a date
EnglishFounder == <<"f", "o", "u", "n", "d", "e", "r", ":", " ", "X", "y", "z">>
DatedResponse  == <<"2", "0", "2", "4", "-", "1", "-", "3", "1", " ">> \o SectorLabel \o <<FullColon, "X", "y", "z">>
DatedResponseZh == <<"2", "0", "2", "4", zh_nian, "1", "2", zh_yue, "3", zh_ri>>

ShortTexts == {<<>>, <<"A", "b">>}
FixedTexts == ShortTexts
              \cup {ScenarioASource, ManyWords,
                    PaddedName(NameWindow - 2), PaddedName(NameWindow - 1), PaddedName(NameWindow)}
FixedResponses == {<<>>, ScenarioAResponse, EnglishFounder, DatedResponse, DatedResponseZh}

\* Every enumerated source text with every fixed response, every enumerated
\* response with every short source text, and the fixed ones with each other
Inputs ==
    (TextsOf(TextPieces, MaxTextPieces) \X FixedResponses)
    \cup (ShortTexts \X TextsOf(RespPieces, MaxRespPieces))
    \cup (FixedTexts \X FixedResponses)

EmptyGraph == [nodes |-> <<>>, edges |-> <<>>]

-----------------------------------------------------------------------------
(* The run of analyze_startup on the text the LLM returned, then           *)
(* to_markdown on the record.  The optional imports of report_generator    *)
(* read nothing the analysis writes; their step stands where their result  *)
(* is first read.                                                          *)

Init ==
    /\ caps = None
    /\ \E in \in Inputs : text = in[1]
    /\ response = <<>>
    /\ pc = "llm"
    /\ err = None
    /\ client = None
    /\ files = <<>>
    /\ out = <<>>
    /\ stream = <<>>
    /\ key_elements = <<>>
    /\ keywords = <<>>
    /\ graph = EmptyGraph
    /\ ana = None
    /\ md = None
    /\ call = <<>>
    /\ ret = <<>>

\* analyzer.py line 115 and, when call_llm raises, lines 140-141: the call
\* returns a response text, or fails for some cause, call_llm wraps the
\* cause and analyze_startup wraps that
AnalyzeCallLLM ==
    /\ pc = "llm"
    /\ \/ /\ \E in \in Inputs : in[1] = text /\ response' = in[2]
          /\ pc' = "key_elements"
          /\ err' = None
       \/ /\ \E cause \in Causes :
                err' = Some([type |-> "Exception", msg |-> AnalysisFailure(LLMFailure(cause))])
          /\ pc' = "raised"
          /\ UNCHANGED response
    /\ UNCHANGED <<caps, text, key_elements, keywords, graph, ana, md, call, ret>>
    /\ UNCHANGED stream
    /\ UNCHANGED <<client, files, out>>

\* analyzer.py line 118
AnalyzeKeyElements ==
    /\ pc = "key_elements"
    /\ key_elements' = ExtractKeyElements(text, response)
    /\ pc' = "keywords"
    /\ UNCHANGED <<caps, text, response, keywords, graph, ana, md, call, ret>>
    /\ UNCHANGED stream
    /\ UNCHANGED <<err, client, files, out>>

\* analyzer.py line 119
AnalyzeKeywords ==
    /\ pc = "keywords"
    /\ keywords' = ExtractKeywords(text, response)
    /\ pc' = "graph"
    /\ UNCHANGED <<caps, text, response, key_elements, graph, ana, md, call, ret>>
    /\ UNCHANGED stream
    /\ UNCHANGED <<err, client, files, out>>

\* analyzer.py line 120
AnalyzeGraph ==
    /\ pc = "graph"
    /\ graph' = BuildGraph(text, response)
    /\ pc' = "record"
    /\ UNCHANGED <<caps, text, response, key_elements, keywords, ana, md, call, ret>>
    /\ UNCHANGED stream
    /\ UNCHANGED <<err, client, files, out>>

\* analyzer.py lines 123-138
AnalyzeRecord ==
    /\ pc = "record"
    /\ ana' = Some(AssembleRecord(text, response, key_elements, keywords, graph))
    /\ pc' = "import"
    /\ UNCHANGED <<caps, text, response, key_elements, keywords, graph, md, call, ret>>
    /\ UNCHANGED stream
    /\ UNCHANGED <<err, client, files, out>>

\* report_generator.py lines 19-34: each optional import succeeds or not
ImportReportGenerator ==
    /\ pc = "import"
    /\ \E c \in Caps : caps' = Some(c)
    /\ pc' = "report"
    /\ UNCHANGED <<text, response, key_elements, keywords, graph, ana, md, call, ret>>
    /\ UNCHANGED stream
    /\ UNCHANGED <<err, client, files, out>>

\* ReportGeneratorPro.to_markdown on the record
ReportMarkdown ==
    /\ pc = "report"
    /\ md' = Some(ToMarkdown(ana[1], caps[1]))
    /\ pc' = "done"
    /\ UNCHANGED <<caps, text, response, key_elements, keywords, graph, ana, call, ret>>
    /\ UNCHANGED stream
    /\ UNCHANGED <<err, client, files, out>>

Next ==
    \/ AnalyzeCallLLM
    \/ AnalyzeKeyElements
    \/ AnalyzeKeywords
    \/ AnalyzeGraph
    \/ AnalyzeRecord
    \/ ImportReportGenerator
    \/ ReportMarkdown

Spec == Init /\ [][Next]_vars


-----------------------------------------------------------------------------
(* The renderers of report_generator.py called on their own, as the        *)
(* module's demo (lines 491-519) does with a record it builds itself: call *)
(* holds the function and its arguments, ret what it returned.             *)

MaxNodes    == 2
MaxEdges    == 2
MaxKeywords == 3
MaxTopK     == 2

RECURSIVE SeqsUpTo(_, _)
\* The sequences of at most n elements of S
SeqsUpTo(S, n) ==
    IF n = 0 THEN {<<>>}
    ELSE LET shorter == SeqsUpTo(S, n - 1)
         IN  shorter \cup {Append(q, x) : q \in shorter, x \in S}

\* Nodes: an id with a character that is replaced, a plain id, the empty
\* id, and a node that has a label only
NodeChoices ==
    {[id |-> i, label |-> <<"L">>, type |-> <<"T">>] :
        i \in {<<"a", ":", "b">>, <<"c">>, <<>>}}
    \cup {[label |-> <<"L">>]}

\* Edges: between the ids above, from an id that differs from a node's id
\* only in the replaced character, from the id a node without id gets, from
\* the empty id, without relation, without source
EdgeChoices ==
    {[source |-> x, target |-> <<"c">>, rel |-> <<"R">>] :
        x \in {<<"a", ":", "b">>, <<"a", "-", "b">>, <<"n", "0">>, <<>>}}
    \cup {[source |-> <<"c">>, target |-> <<"a", ":", "b">>, rel |-> <<"R">>],
          [source |-> <<"a", ":", "b">>, target |-> <<"c">>],
          [target |-> <<"c">>, rel |-> <<"R">>]}

Graphs ==
    {[nodes |-> ns, edges |-> es] :
        ns \in SeqsUpTo(NodeChoices, MaxNodes), es \in SeqsUpTo(EdgeChoices, MaxEdges)}

\* Score mappings: any of the five dimensions and one other key
ScoreKeys == {DimsOrder[i] : i \in 1..Len(DimsOrder)} \cup {"total"}
Scorings  == {[k \in S |-> 5] : S \in SUBSET ScoreKeys}

KeywordChoices ==
    {[term |-> t, weight |-> w] :
        t \in {<<"a", "b">>, <<"c", "d">>}, w \in {One \div 2, One}}
KeywordLists == SeqsUpTo(KeywordChoices, MaxKeywords)
TopKs == ((0 - MaxTopK)..MaxTopK) \cup {DefaultTopK}

\* Key elements: every key present or not, the company name also empty
\* or with a line break in it
Optional(k, values) == {<<>>} \cup {k :> v : v \in values}
KeyElementChoices ==
    {a @@ b @@ c @@ d @@ e @@ f :
        a \in Optional("company_name", {<<>>, <<"A", "b">>, <<"A", "b", "\n", "C", "d">>}),
        b \in Optional("name", {<<"X", "y">>}),
        c \in Optional("founded", {<<"2", "0", "2", "4">>}),
        d \in Optional("sector", {<<"S">>}),
        e \in Optional("one_liner", {<<"O">>}),
        f \in Optional("description", {<<"D">>})}

SourceChoices ==
    {<<>>,
     << [title |-> <<"T">>, url |-> <<"U">>, level |-> <<"L", "2">>,
         captured_at |-> <<"YYYY-MM-DD">>] >>}

Records ==
    {[extracted_at |-> <<"YYYY-MM-DD HH:MM:SS">>,
      raw_response |-> r,
      key_elements |-> ke,
      graph        |-> EmptyGraph,
      scoring      |-> <<>>,
      keywords     |-> <<>>,
      sources      |-> srcs] :
        r \in {<<>>, <<" ", "x", "\n">>}, ke \in KeyElementChoices, srcs \in SourceChoices}

\* Records for render_html: no extracted element or all of them, no source,
\* one source, or two sources the second of which has no title and an
\* empty url
HtmlRecords ==
    {[extracted_at |-> <<"YYYY-MM-DD HH:MM:SS">>,
      raw_response |-> r,
      key_elements |-> ke,
      graph        |-> EmptyGraph,
      scoring      |-> <<>>,
      keywords     |-> <<>>,
      sources      |-> srcs] :
        r \in {<<>>, <<" ", "x", "\n">>},
        ke \in {<<>>,
                [company_name |-> <<"A", "b">>, founded |-> <<"2", "0", "2", "4">>,
                 sector |-> <<"S">>, one_liner |-> <<"O">>, description |-> <<"D">>]},
        srcs \in SourceChoices
                 \cup {<< [title |-> <<"T">>, url |-> <<"U">>, level |-> <<"L", "2">>,
                           captured_at |-> <<"YYYY-MM-DD">>],
                          [url |-> <<>>, level |-> <<"L", "1">>,
                           captured_at |-> <<"YYYY-MM-DD">>] >>}}

\* Records for _prepare_visuals: keywords, scoring and graph each empty or
\* not
VisualRecords ==
    {[extracted_at |-> <<"YYYY-MM-DD HH:MM:SS">>,
      raw_response |-> <<>>,
      key_elements |-> <<>>,
      graph        |-> g,
      scoring      |-> sc,
      keywords     |-> kws,
      sources      |-> <<>>] :
        g \in {EmptyGraph,
               [nodes |-> << [id |-> <<"c">>, label |-> <<"L">>, type |-> <<"T">>] >>,
                edges |-> <<>>]},
        sc \in {<<>>, [k \in ScoreKeys |-> 5], [k \in {"total"} |-> 5]},
        kws \in {<<>>, << [term |-> <<"a", "b">>, weight |-> One] >>}}

\* Graphs for render_graph_base64: the nodes as above, at most one edge
DrawnGraphs ==
    {[nodes |-> ns, edges |-> es] :
        ns \in SeqsUpTo(NodeChoices, MaxNodes), es \in {<<>>} \cup {<<e>> : e \in EdgeChoices}}

\* An artifact is absent or present
Artifact(name) == {None, Some(<<"base64-png", name>>)}
MermaidArtifact == {None, Some(<<"graph TD">>)}

AllCaps == [plt |-> TRUE, nx |-> TRUE, tmpl |-> TRUE]

RenderCalls ==
    {[fn |-> "_graph_to_mermaid", args |-> <<g>>, caps |-> AllCaps] : g \in Graphs}
    \cup {[fn |-> "render_radar_base64", args |-> <<sc>>, caps |-> c] :
            sc \in Scorings, c \in Caps}
    \cup {[fn |-> "render_keyword_cloud_base64", args |-> <<kws, topk>>, caps |-> c] :
            kws \in KeywordLists, topk \in TopKs,
            c \in {AllCaps, [AllCaps EXCEPT !.plt = FALSE]}}
    \cup {[fn |-> "render_markdown", args |-> <<a, radar, gr, mm, cloud>>, caps |-> AllCaps] :
            a \in Records, radar \in Artifact("radar"), gr \in Artifact("graph"),
            mm \in MermaidArtifact, cloud \in Artifact("keywords")}
    \cup {[fn |-> "render_html", args |-> <<a, radar, gr, mm, cloud>>, caps |-> c] :
            a \in HtmlRecords, radar \in Artifact("radar"), gr \in Artifact("graph"),
            mm \in MermaidArtifact, cloud \in Artifact("keywords"),
            c \in {AllCaps, [AllCaps EXCEPT !.tmpl = FALSE]}}
    \cup {[fn |-> "_prepare_visuals", args |-> <<a>>, caps |-> c] :
            a \in VisualRecords, c \in Caps}
    \cup {[fn |-> "render_graph_base64", args |-> <<g>>, caps |-> c] :
            g \in DrawnGraphs, c \in {AllCaps, [AllCaps EXCEPT !.nx = FALSE]}}

InitRender ==
    /\ \E cl \in RenderCalls : call = cl /\ caps = Some(cl.caps)
    /\ pc = "call"
    /\ err = None
    /\ client = None
    /\ files = <<>>
    /\ out = <<>>
    /\ stream = <<>>
    /\ ret = <<>>
    /\ text = <<>>
    /\ response = <<>>
    /\ key_elements = <<>>
    /\ keywords = <<>>
    /\ graph = EmptyGraph
    /\ ana = None
    /\ md = None

CallGraphToMermaid ==
    /\ pc = "call"
    /\ call.fn = "_graph_to_mermaid"
    /\ ret' = [lines |-> MermaidLines(call.args[1]), text |-> GraphToMermaid(call.args[1])]
    /\ pc' = "returned"
    /\ UNCHANGED <<caps, text, response, key_elements, keywords, graph, ana, md, call>>
    /\ UNCHANGED stream
    /\ UNCHANGED <<err, client, files, out>>

CallRenderRadar ==
    /\ pc = "call"
    /\ call.fn = "render_radar_base64"
    /\ ret' = RenderRadarBase64(call.args[1], caps[1])
    /\ pc' = "returned"
    /\ UNCHANGED <<caps, text, response, key_elements, keywords, graph, ana, md, call>>
    /\ UNCHANGED stream
    /\ UNCHANGED <<err, client, files, out>>

CallRenderKeywordCloud ==
    /\ pc = "call"
    /\ call.fn = "render_keyword_cloud_base64"
    /\ ret' = RenderKeywordCloudBase64(call.args[1], call.args[2], caps[1])
    /\ pc' = "returned"
    /\ UNCHANGED <<caps, text, response, key_elements, keywords, graph, ana, md, call>>
    /\ UNCHANGED stream
    /\ UNCHANGED <<err, client, files, out>>

CallRenderMarkdown ==
    /\ pc = "call"
    /\ call.fn = "render_markdown"
    /\ ret' = RenderMarkdown(call.args[1], call.args[2], call.args[3],
                             call.args[4], call.args[5])
    /\ pc' = "returned"
    /\ UNCHANGED <<caps, text, response, key_elements, keywords, graph, ana, md, call>>
    /\ UNCHANGED stream
    /\ UNCHANGED <<err, client, files, out>>

CallRenderHtml ==
    /\ pc = "call"
    /\ call.fn = "render_html"
    /\ ret' = RenderHtml(call.args[1], call.args[2], call.args[3],
                         call.args[4], call.args[5], caps[1])
    /\ pc' = "returned"
    /\ UNCHANGED <<caps, text, response, key_elements, keywords, graph, ana, md, call>>
    /\ UNCHANGED stream
    /\ UNCHANGED <<err, client, files, out>>

CallPrepareVisuals ==
    /\ pc = "call"
    /\ call.fn = "_prepare_visuals"
    /\ ret' = PrepareVisuals(call.args[1], caps[1])
    /\ pc' = "returned"
    /\ UNCHANGED <<caps, text, response, key_elements, keywords, graph, ana, md, call>>
    /\ UNCHANGED stream
    /\ UNCHANGED <<err, client, files, out>>

\* render_graph_base64: what it returns and, when it draws, the DiGraph
\* whose nodes and edges it draws
CallRenderGraph ==
    /\ pc = "call"
    /\ call.fn = "render_graph_base64"
    /\ \E result \in {RenderGraphBase64(call.args[1], caps[1])} :
          ret' = [result |-> result,
                  drawn  |-> IF result[1] # None THEN DiGraphOf(call.args[1])
                             ELSE [nodes |-> {}, edges |-> {}]]
    /\ pc' = "returned"
    /\ UNCHANGED <<caps, text, response, key_elements, keywords, graph, ana, md, call>>
    /\ UNCHANGED <<err, client, files, out>>
    /\ UNCHANGED stream

NextRender ==
    \/ CallRenderGraph
    \/ CallPrepareVisuals
    \/ CallGraphToMermaid
    \/ CallRenderRadar
    \/ CallRenderKeywordCloud
    \/ CallRenderMarkdown
    \/ CallRenderHtml

SpecRender == InitRender /\ [][NextRender]_vars


-----------------------------------------------------------------------------
(* The entry points: main of src/main.py, ReportGeneratorPro.save_all as   *)
(* the demo of report_generator.py calls it, and the construction of a     *)
(* client handle of either module.  The environment is part of the call:   *)
(* the value of OPENAI_API_KEY, whether data.txt can be read and what it   *)
(* holds, how each write ends, which optional libraries can be imported.   *)

Credentials == {None, Some(<<>>), Some(<<"s", "k">>)}
MainTexts   == ShortTexts \cup {ScenarioASource}
WritePairs  == WriteOutcomes \X WriteOutcomes

MaxFragments == 3

MainCalls ==
    {[fn |-> "main", args |-> <<env_key, readable, data, how[1], how[2]>>, caps |-> c] :
        env_key \in Credentials, readable \in BOOLEAN, data \in MainTexts,
        how \in WritePairs, c \in {AllCaps, [AllCaps EXCEPT !.plt = FALSE]}}
    \cup {[fn |-> "save_all", args |-> <<a, how[1], how[2]>>, caps |-> c] :
            a \in VisualRecords, how \in WritePairs, c \in Caps}
    \cup {[fn |-> m, args |-> <<api_key, env_key, strict>>, caps |-> AllCaps] :
            m \in {"llm_client.LLMClient", "startup_analyzer.LLMClient"},
            api_key \in Credentials, env_key \in Credentials, strict \in BOOLEAN}
    \cup {[fn |-> "call_llm", args |-> <<TRUE, chunks>>, caps |-> AllCaps] :
            chunks \in SeqsUpTo(Fragments, MaxFragments)}
    \cup {[fn |-> "call_llm", args |-> <<FALSE, reply>>, caps |-> AllCaps] :
            reply \in {Delta(None), Delta(Some(<<"a">>)),
                       [kind |-> "error", content |-> None]}}

InitMain ==
    /\ \E cl \in MainCalls : call = cl /\ caps = Some(cl.caps)
    /\ pc = "call"
    /\ err = None
    /\ client = None
    /\ files = <<>>
    /\ out = <<>>
    /\ stream = <<>>
    /\ ret = <<>>
    /\ text = <<>>
    /\ response = <<>>
    /\ key_elements = <<>>
    /\ keywords = <<>>
    /\ graph = EmptyGraph
    /\ ana = None
    /\ md = None

\* main.py lines 15-23
MainCheckKey ==
    /\ pc = "call"
    /\ call.fn = "main"
    /\ IF Truthy(call.args[1])
       THEN out' = <<MsgStart>> /\ pc' = "main_read"
       ELSE out' = <<MsgStart, MsgNoKey, MsgNoKeyHint>> /\ pc' = "exit"
    /\ UNCHANGED <<caps, text, response, key_elements, keywords, graph, ana, md, call, ret>>
    /\ UNCHANGED stream
    /\ UNCHANGED <<err, client, files>>

\* main.py lines 27-28
MainRead ==
    /\ pc = "main_read"
    /\ IF call.args[2]
       THEN text' = call.args[3] /\ pc' = "main_client" /\ UNCHANGED err
       ELSE err' = Some([type |-> "OSError", msg |-> <<"data.txt">>])
            /\ pc' = "main_except" /\ UNCHANGED text
    /\ UNCHANGED <<caps, response, key_elements, keywords, graph, ana, md, call, ret>>
    /\ UNCHANGED stream
    /\ UNCHANGED <<client, files, out>>

\* main.py lines 31-34
MainClient ==
    /\ pc = "main_client"
    /\ \E made \in {LLMClientInit(call.args[1], call.args[1])} :
          /\ client' = made.client
          /\ err' = made.raised
          /\ pc' = IF made.raised = None THEN "main_analyze" ELSE "main_except"
    /\ UNCHANGED <<caps, text, response, key_elements, keywords, graph, ana, md, call, ret>>
    /\ UNCHANGED stream
    /\ UNCHANGED <<files, out>>

\* main.py line 37: analyze_startup as a whole
MainAnalyze ==
    /\ pc = "main_analyze"
    /\ out' = Append(out, MsgAnalyzing)
    /\ \/ /\ \E r \in FixedResponses :
                /\ response' = r
                /\ key_elements' = ExtractKeyElements(text, r)
                /\ keywords' = ExtractKeywords(text, r)
                /\ graph' = BuildGraph(text, r)
                /\ ana' = Some(AssembleRecord(text, r, ExtractKeyElements(text, r),
                                              ExtractKeywords(text, r), BuildGraph(text, r)))
          /\ pc' = "main_save"
          /\ UNCHANGED err
       \/ /\ \E cause \in Causes :
                err' = Some([type |-> "Exception", msg |-> AnalysisFailure(LLMFailure(cause))])
          /\ pc' = "main_except"
          /\ UNCHANGED <<response, key_elements, keywords, graph, ana>>
    /\ UNCHANGED <<caps, text, md, call, ret, client, files>>
    /\ UNCHANGED stream

\* main.py lines 40-58: the call of save_all and, when it returns, the
\* completion message, the list of files and the summary
MainSaveAll ==
    /\ pc = "main_save"
    /\ IF Binds(SaveAllParams, {"ana"} \cup MainKeywordArgs)
       THEN \E saved \in {SaveAll(ana[1], caps[1], MainMdPath, MainHtmlPath,
                                  call.args[4], call.args[5], files)} :
               /\ files' = saved.files
               /\ err' = saved.raised
               /\ IF saved.raised = None
                  THEN /\ out' = Append(out, MsgReporting) \o saved.out
                                   \o <<MsgComplete, <<"report files:">>,
                                        <<"- MARKDOWN: ", MainMdPath>>,
                                        <<"- HTML: ", MainHtmlPath>>,
                                        <<"summary:">> \o ana[1].raw_response>>
                       /\ pc' = "exit"
                  ELSE /\ out' = Append(out, MsgReporting)
                       /\ pc' = "main_except"
       ELSE /\ err' = Some(UnexpectedKeyword)
            /\ out' = Append(out, MsgReporting)
            /\ pc' = "main_except"
            /\ UNCHANGED files
    /\ UNCHANGED <<caps, text, response, key_elements, keywords, graph, ana, md, call, ret>>
    /\ UNCHANGED stream
    /\ UNCHANGED client

\* main.py lines 60-61
MainExcept ==
    /\ pc = "main_except"
    /\ out' = Append(out, MsgError(err[1]))
    /\ err' = None
    /\ pc' = "exit"
    /\ UNCHANGED <<caps, text, response, key_elements, keywords, graph, ana, md, call, ret>>
    /\ UNCHANGED stream
    /\ UNCHANGED <<client, files>>

\* report_generator.py lines 463-486, called as at line 519
CallSaveAll ==
    /\ pc = "call"
    /\ call.fn = "save_all"
    /\ \E saved \in {SaveAll(call.args[1], caps[1], DefaultMdPath, DefaultHtmlPath,
                             call.args[2], call.args[3], files)} :
          /\ files' = saved.files
          /\ out' = saved.out
          /\ err' = saved.raised
          /\ ret' = saved.result
          /\ pc' = IF saved.raised = None THEN "returned" ELSE "raised"
    /\ UNCHANGED <<caps, text, response, key_elements, keywords, graph, ana, md, call>>
    /\ UNCHANGED stream
    /\ UNCHANGED client

\* llm_client.py lines 23-35
CallLLMClientInit ==
    /\ pc = "call"
    /\ call.fn = "llm_client.LLMClient"
    /\ \E made \in {LLMClientInit(call.args[1], call.args[2])} :
          /\ client' = made.client
          /\ err' = made.raised
          /\ pc' = IF made.raised = None THEN "returned" ELSE "raised"
    /\ UNCHANGED <<caps, text, response, key_elements, keywords, graph, ana, md, call, ret>>
    /\ UNCHANGED stream
    /\ UNCHANGED <<files, out>>

\* startup_analyzer.py lines 92-99
CallLegacyLLMClientInit ==
    /\ pc = "call"
    /\ call.fn = "startup_analyzer.LLMClient"
    /\ \E made \in {LegacyLLMClientInit(call.args[1], call.args[2], call.args[3])} :
          /\ client' = made.client
          /\ err' = made.raised
          /\ pc' = IF made.raised = None THEN "returned" ELSE "raised"
    /\ UNCHANGED <<caps, text, response, key_elements, keywords, graph, ana, md, call, ret>>
    /\ UNCHANGED stream
    /\ UNCHANGED <<files, out>>

\* llm_client.py lines 39-54 and 62-64: the request; it fails, or gives the
\* whole reply when stream is false, or gives the stream
CallLLMRequest ==
    /\ pc = "call"
    /\ call.fn = "call_llm"
    /\ IF call.args[1]
       THEN /\ stream' = call.args[2]
            /\ response' = <<>>
            /\ out' = <<MsgStreaming>>
            /\ pc' = "streaming"
            /\ UNCHANGED <<ret, err>>
       ELSE IF call.args[2].kind = "error"
       THEN /\ \E cause \in Causes :
                 err' = Some([type |-> "Exception", msg |-> LLMFailure(cause)])
            /\ pc' = "raised"
            /\ UNCHANGED <<ret, response, out, stream>>
       ELSE /\ ret' = call.args[2].content
            /\ pc' = "returned"
            /\ UNCHANGED <<err, response, out, stream>>
    /\ UNCHANGED <<caps, text, key_elements, keywords, graph, ana, md, call>>
    /\ UNCHANGED <<client, files>>

\* llm_client.py lines 55-59, one round of the loop: the next chunk of the
\* stream.  A failure of the stream and the IndexError of a chunk without
\* choices leave call_llm through line 66.
CallLLMNextChunk ==
    /\ pc = "streaming"
    /\ stream # <<>>
    /\ stream' = Tail(stream)
    /\ IF Head(stream).kind = "error"
       THEN /\ \E cause \in Causes :
                 err' = Some([type |-> "Exception", msg |-> LLMFailure(cause)])
            /\ pc' = "raised"
            /\ UNCHANGED <<response, out>>
       ELSE IF Head(stream).kind = "nochoice"
       THEN /\ err' = Some([type |-> "Exception", msg |-> LLMFailure(IndexOutOfRange)])
            /\ pc' = "raised"
            /\ UNCHANGED <<response, out>>
       ELSE /\ response' = Consume(response, Head(stream))
            /\ out' = Echo(out, Head(stream))
            /\ UNCHANGED <<pc, err>>
    /\ UNCHANGED <<caps, text, key_elements, keywords, graph, ana, md, call, ret>>
    /\ UNCHANGED <<client, files>>

\* llm_client.py lines 60-61: the stream has ended
CallLLMStreamEnd ==
    /\ pc = "streaming"
    /\ stream = <<>>
    /\ out' = Append(out, <<"\n">>)
    /\ ret' = Some(response)
    /\ pc' = "returned"
    /\ UNCHANGED <<caps, text, response, key_elements, keywords, graph, ana, md, call>>
    /\ UNCHANGED <<err, client, files, stream>>

NextMain ==
    \/ CallLLMRequest
    \/ CallLLMNextChunk
    \/ CallLLMStreamEnd
    \/ MainCheckKey
    \/ MainRead
    \/ MainClient
    \/ MainAnalyze
    \/ MainSaveAll
    \/ MainExcept
    \/ CallSaveAll
    \/ CallLLMClientInit
    \/ CallLegacyLLMClientInit

SpecMain == InitMain /\ [][NextMain]_vars


-----------------------------------------------------------------------------
(* Properties of the keyword extraction (Spec)                             *)

\* The steps of analyze_startup that have run
KeywordsDone == pc \notin {"llm", "raised", "key_elements", "keywords"}
\* _extract_keywords has just returned
KeywordsReturned == pc = "graph"
GraphDone    == pc \notin {"llm", "raised", "key_elements", "keywords", "graph"}

\* C1: whenever _extract_keywords returns a non-empty list, its first entry
\* has weight exactly 1 and every weight w satisfies 0 < w <= 1.
C1_TopWeightIsOne ==
    (KeywordsDone /\ keywords # <<>>) =>
        /\ keywords[1].weight = One
        /\ \A i \in 1..Len(keywords) :
              0 < keywords[i].weight /\ keywords[i].weight <= One

\* C1 witness: a list whose weights are 1, 2/3 and 1/3
C1_Witness ==
    /\ KeywordsDone
    /\ Len(keywords) >= 3
    /\ keywords[1].weight = One
    /\ keywords[2].weight = FixDiv(2, 3)
    /\ keywords[3].weight = FixDiv(1, 3)

\* The text _extract_keywords searches
AllText == text \o <<" ">> \o response

\* The word that starts at position i of s
WordAt(s, i) ==
    IF IsCJK(s[i]) THEN SubSeq(s, i, CJKRunEnd(s, i)) ELSE SubSeq(s, i, AlphaRunEnd(s, i))

\* Where each term of the keyword list first occurs as a word of s
FirstOccurrences(s, kws) ==
    LET starts == ChineseStarts(s) \cup EnglishStarts(s)
        words  == [i \in starts |-> WordAt(s, i)]
    IN  [k \in 1..Len(kws) |-> Min({i \in starts : words[i] = kws[k].term})]

IsCJKTerm(term) == IsCJK(term[1])

\* At most 20 pairs, weights non-increasing
SortedAndCut ==
    /\ Len(keywords) <= KeywordLimit
    /\ \A i, j \in 1..Len(keywords) :
          i < j => keywords[i].weight >= keywords[j].weight

\* C2 as stated: at most 20 pairs, sorted by weight in non-increasing order,
\* and two terms of equal weight appear in the order of their first
\* occurrence in the concatenated text, also when one is a CJK run and the
\* other an alphabetic run.
C2_TiesByFirstOccurrence ==
    KeywordsReturned =>
        LET first == FirstOccurrences(AllText, keywords)
        IN  /\ SortedAndCut
            /\ \A i, j \in 1..Len(keywords) :
                  (i < j /\ keywords[i].weight = keywords[j].weight) => first[i] < first[j]

\* C2 amended: at most 20 pairs, sorted by weight in non-increasing order;
\* of two terms of equal weight a CJK run comes before an alphabetic run, and
\* two runs of the same kind appear in the order of their first occurrence.
C2_TiesByKindThenOccurrence ==
    KeywordsReturned =>
        LET first == FirstOccurrences(AllText, keywords)
        IN  /\ SortedAndCut
            /\ \A i, j \in 1..Len(keywords) :
                  (i < j /\ keywords[i].weight = keywords[j].weight) =>
                      \/ IsCJKTerm(keywords[i].term) /\ ~IsCJKTerm(keywords[j].term)
                      \/ /\ IsCJKTerm(keywords[i].term) = IsCJKTerm(keywords[j].term)
                         /\ first[i] < first[j]

\* C2 witness: more than 20 distinct words, 20 returned, and a CJK run
\* ahead of an alphabetic run of the same weight that occurs before it
C2_Witness ==
    /\ KeywordsReturned
    /\ Len(keywords) = KeywordLimit
    /\ \E i, j \in 1..Len(keywords) :
          /\ i < j
          /\ keywords[i].weight = keywords[j].weight
          /\ IsCJKTerm(keywords[i].term) /\ ~IsCJKTerm(keywords[j].term)
          /\ FirstOccurrences(AllText, keywords)[j] < FirstOccurrences(AllText, keywords)[i]
    /\ \E i \in 1..(Len(keywords) - 1) : keywords[i].weight > keywords[i + 1].weight

-----------------------------------------------------------------------------
(* Properties of the renderers (SpecRender)                                *)

Returned(fn) == pc = "returned" /\ call.fn = fn

\* The graph edges whose source and target are both ids of declared nodes
DeclaredEdges(g) ==
    {k \in 1..Len(g.edges) :
        /\ "source" \in DOMAIN g.edges[k]
        /\ "target" \in DOMAIN g.edges[k]
        /\ \E m, n \in 1..Len(g.nodes) :
              /\ MermaidNodeId(g, m) = g.edges[k].source
              /\ MermaidNodeId(g, n) = g.edges[k].target}

\* C3: the text of _graph_to_mermaid has an edge line only for edges whose
\* source and target are both ids of nodes declared in the same text: every
\* edge line joins two declared ids, and there are no more edge lines than
\* such edges.  (The text is a function of the graph alone.)
C3_EdgesBetweenDeclaredNodes ==
    Returned("_graph_to_mermaid") =>
        LET g         == call.args[1]
            lines     == ret.lines
            nodeLines == {k \in 1..Len(lines) : lines[k].kind = "node"}
            edgeLines == {k \in 1..Len(lines) : lines[k].kind = "edge"}
        IN  /\ \A k \in edgeLines :
                  /\ \E n \in nodeLines : lines[n].id = lines[k].source
                  /\ \E n \in nodeLines : lines[n].id = lines[k].target
                  /\ \E e \in DeclaredEdges(g) :
                        /\ Sanitize(g.edges[e].source) = lines[k].source
                        /\ Sanitize(g.edges[e].target) = lines[k].target
            /\ Cardinality(edgeLines) <= Cardinality(DeclaredEdges(g))

\* C3 witness: a graph with an edge that is drawn, between ids that hold a
\* replaced character, and an edge that is dropped
C3_Witness ==
    /\ Returned("_graph_to_mermaid")
    /\ \E k \in 1..Len(ret.lines) :
          ret.lines[k].kind = "edge" /\ ret.lines[k].source = <<"a", "_", "b">>
    /\ Cardinality(DeclaredEdges(call.args[1])) < Len(call.args[1].edges)

\* Where the lines of t start
LineStarts(t) == {1} \cup {i + 1 : i \in {j \in 1..Len(t) : t[j] = "\n"}}
LineAt(t, p)  == SubSeq(t, p, LineEnd(t, p))
IsBlank(line) == \A i \in 1..Len(line) : IsSpace(line[i])

\* The first line of t that is not blank (t has one)
FirstNonBlankLine(t) ==
    LineAt(t, Min({p \in LineStarts(t) : ~IsBlank(LineAt(t, p))}))

\* sub occurs in line
Contains(line, sub) ==
    \E i \in 1..(Len(line) - Len(sub) + 1) : SubSeq(line, i, i + Len(sub) - 1) = sub

\* The name of a record: company_name, else name, else the placeholder
NameOrPlaceholder(ke) ==
    IF "company_name" \in DOMAIN ke /\ ke["company_name"] # <<>> THEN ke["company_name"]
    ELSE IF "name" \in DOMAIN ke /\ ke["name"] # <<>> THEN ke["name"]
    ELSE NA

\* C4: for every record and every combination of artifacts, the first
\* non-blank line of render_markdown's output contains the record's company
\* name in full, or the placeholder when there is none.
C4_FirstLineHoldsName ==
    Returned("render_markdown") =>
        Contains(FirstNonBlankLine(ret), NameOrPlaceholder(call.args[1].key_elements))

Recognized(scoring) == DOMAIN scoring \cap {DimsOrder[i] : i \in 1..Len(DimsOrder)}

\* C5 as stated: render_radar_base64 returns nothing for a mapping with
\* none of the five keys and a non-empty result for a mapping with at least
\* one of them.
C5_RadarIffRecognized ==
    Returned("render_radar_base64") =>
        /\ Recognized(call.args[1]) = {} => ret = None
        /\ Recognized(call.args[1]) # {} => Truthy(ret)

\* C5 amended: render_radar_base64 returns nothing for a mapping with none
\* of the five keys; for a mapping with at least one of them it returns a
\* non-empty result when the charting capability is available and nothing
\* when it is not.
C5_RadarIffRecognizedAndCharting ==
    Returned("render_radar_base64") =>
        /\ Recognized(call.args[1]) = {} => ret = None
        /\ (Recognized(call.args[1]) # {} /\ caps[1].plt) => Truthy(ret)
        /\ (Recognized(call.args[1]) # {} /\ ~caps[1].plt) => ret = None

\* C5 witness: a mapping with a recognized key and another key, drawn
C5_Witness ==
    /\ Returned("render_radar_base64")
    /\ "total" \in DOMAIN call.args[1]
    /\ Recognized(call.args[1]) # {}
    /\ caps[1].plt
    /\ Truthy(ret)

\* All selected weights are equal
EqualWeights(kws) == \A i, j \in 1..Len(kws) : kws[i].weight = kws[j].weight

\* Normalization divides by a non-zero denominator and stays inside [0,1]
NormalizedInUnitInterval(r) ==
    /\ ~r.raised
    /\ \A i \in 1..Len(r.norm) :
          /\ r.norm[i].den # 0
          /\ 0 <= r.norm[i].num
          /\ r.norm[i].num <= r.norm[i].den

-----------------------------------------------------------------------------
(* Properties of the analysis and of its report (Spec)                     *)

Acme         == <<"A", "c", "m", "e">>
AcmeRobotics == <<"A", "c", "m", "e", " ", "R", "o", "b", "o", "t", "i", "c", "s">>
Robotics     == <<"R", "o", "b", "o", "t", "i", "c", "s">>
FasterPicking == <<"F", "a", "s", "t", "e", "r", " ", "p", "i", "c", "k", "i", "n", "g">>

ScenarioA == text = ScenarioASource /\ response = ScenarioAResponse /\ GraphDone

\* What scenario A yields besides the company name
ScenarioARest ==
    /\ {"company_name", "sector", "one_liner"} \subseteq DOMAIN key_elements
    /\ key_elements["sector"] = Robotics
    /\ key_elements["one_liner"] = FasterPicking
    /\ Len(graph.nodes) = 2
    /\ Len(graph.edges) = 1
    /\ graph.edges[1].rel = <<"FOUNDED_BY">>

\* C6 as stated: scenario A yields company_name "Acme", sector "Robotics",
\* one_liner "Faster picking", and a graph of exactly 2 nodes and exactly 1
\* edge, whose relation is FOUNDED_BY.
C6_ScenarioA_Acme ==
    ScenarioA => (ScenarioARest /\ key_elements["company_name"] = Acme)

\* C6 amended: scenario A yields company_name "Acme Robotics", sector
\* "Robotics", one_liner "Faster picking", and a graph of exactly 2 nodes
\* and exactly 1 edge, whose relation is FOUNDED_BY.
C6_ScenarioA_AcmeRobotics ==
    ScenarioA => (ScenarioARest /\ key_elements["company_name"] = AcmeRobotics)

\* C6 witness: scenario A has been analyzed
C6_Witness == ScenarioA /\ pc = "record" /\ Len(graph.nodes) = 2

\* line is one of the lines of doc
HasLine(doc, line) == \E p \in LineStarts(doc) : LineAt(doc, p) = line

\* line is followed by next in doc
HasLineThen(doc, line, next) ==
    \E p \in LineStarts(doc) :
        /\ LineAt(doc, p) = line
        /\ LineEnd(doc, p) + 2 \in LineStarts(doc)
        /\ LineAt(doc, LineEnd(doc, p) + 2) = next

\* The row of the core-elements table for a missing element
PlaceholderRow(element) == <<element>> \o EmDash \o <<" |">>

\* C7: scenario B: when the response is empty the extracted elements hold
\* no key other than company_name, the graph has zero edges, and to_markdown
\* returns without raising a document that shows em-dash placeholders for
\* the missing core elements and the "no graph data" placeholder in the
\* relationship-graph section.
C7_ScenarioB ==
    (pc = "done" /\ response = <<>>) =>
        /\ DOMAIN key_elements \subseteq {"company_name"}
        /\ graph.edges = <<>>
        /\ ~md[1].raised
        /\ "company_name" \notin DOMAIN key_elements
               => HasLine(md[1].doc, PlaceholderRow("| Company name | "))
        /\ HasLine(md[1].doc, PlaceholderRow("| Founded | "))
        /\ HasLine(md[1].doc, PlaceholderRow("| Sector | "))
        /\ HasLine(md[1].doc, PlaceholderRow("| Value proposition | "))
        /\ HasLine(md[1].doc, PlaceholderRow("| Description | "))
        /\ HasLineThen(md[1].doc, <<GraphHeading>>, <<NoGraphData>>)

CompanyNodes == {k \in 1..Len(graph.nodes) : graph.nodes[k].type = <<"Company">>}
PersonNodes  == {k \in 1..Len(graph.nodes) : graph.nodes[k].type = <<"Person">>}

\* C9: the graph has at most one Company node, and has one exactly when
\* _extract_key_elements yields a company_name for the same inputs; its label
\* is that company_name and its id is "company:" followed by the lower-cased
\* company_name.
C9_CompanyNodeAgrees ==
    GraphDone =>
        /\ Cardinality(CompanyNodes) <= 1
        /\ CompanyNodes # {} <=> "company_name" \in DOMAIN key_elements
        /\ \A k \in CompanyNodes :
              /\ graph.nodes[k].label = key_elements["company_name"]
              /\ graph.nodes[k].id = CompanyPrefix \o Lower(key_elements["company_name"])

\* C9 witness: a name that the 200-character window cuts inside a word
C9_Witness ==
    /\ GraphDone
    /\ Len(text) > NameWindow
    /\ IsAlpha(text[NameWindow]) /\ IsAlpha(text[NameWindow + 1])
    /\ CompanyNodes # {}
    /\ graph.nodes[1].id = CompanyPrefix \o <<"a", "b">>

\* The label with its colon starts at position i of the response
FounderLabelAt(i) ==
    /\ i + Len(FounderLabel) <= Len(response)
    /\ SubSeq(response, i, i + Len(FounderLabel) - 1) = FounderLabel
    /\ response[i + Len(FounderLabel)] \in {":", FullColon}

EnglishLabel == <<"f", "o", "u", "n", "d", "e", "r">>
EnglishLabelAt(i) ==
    /\ i + Len(EnglishLabel) <= Len(response)
    /\ SubSeq(response, i, i + Len(EnglishLabel) - 1) = EnglishLabel
    /\ response[i + Len(EnglishLabel)] \in {":", FullColon}

\* One Person node with this label, and one FOUNDED_BY edge from the
\* Company node to it
OnePersonFoundedBy(name) ==
    /\ Cardinality(PersonNodes) = 1
    /\ Cardinality(CompanyNodes) = 1
    /\ \A k \in PersonNodes : graph.nodes[k].label = name
    /\ Len(graph.edges) = 1
    /\ graph.edges[1].rel = <<"FOUNDED_BY">>
    /\ \A c \in CompanyNodes : graph.edges[1].source = graph.nodes[c].id
    /\ \A k \in PersonNodes : graph.edges[1].target = graph.nodes[k].id

\* C10 as stated: when the response has a line labeled with the Chinese
\* label or with "founder", the graph has exactly one Person node, labeled
\* with the founder name (the rest of that line), and exactly one FOUNDED_BY
\* edge from the Company node to that Person node.
C10_FounderLine ==
    GraphDone =>
        \A p \in LineStarts(response) :
            (FounderLabelAt(p) \/ EnglishLabelAt(p)) =>
                LET colon == IF FounderLabelAt(p) THEN p + Len(FounderLabel)
                             ELSE p + Len(EnglishLabel)
                IN  OnePersonFoundedBy(Strip(SubSeq(response, colon + 1, LineEnd(response, p))))

\* The positions after position c of the response that hold anything but a
\* line break, and those that hold anything but white space
NoBreakAfter(c) == {q \in (c + 1)..Len(response) : response[q] # "\n"}
NoSpaceAfter(c) == {q \in (c + 1)..Len(response) : ~IsSpace(response[q])}

\* The founder name after the colon at position c: from the first character
\* that is no white space to the end of its line, trimmed; empty when only
\* white space follows
FounderNameAfter(c) ==
    IF NoSpaceAfter(c) = {} THEN <<>>
    ELSE Strip(LineAt(response, Min(NoSpaceAfter(c))))

\* C10 amended: when a company name is extracted from the source text and
\* the response holds the Chinese label followed by a colon, and after the
\* first such colon any character other than a line break, the graph has
\* exactly one Person node, labeled with the text from the first character
\* after that colon that is no white space to the end of its line, trimmed,
\* and exactly one FOUNDED_BY edge from the Company node to that Person node.
C10_ChineseLabelWithCompany ==
    GraphDone =>
        LET at == {i \in 1..Len(response) : FounderLabelAt(i)}
        IN  ("company_name" \in DOMAIN key_elements
                /\ at # {}
                /\ NoBreakAfter(Min(at) + Len(FounderLabel)) # {})
            => OnePersonFoundedBy(FounderNameAfter(Min(at) + Len(FounderLabel)))

\* C10 witness: a founder name on the line that follows the label
C10_Witness ==
    /\ GraphDone
    /\ "company_name" \in DOMAIN key_elements
    /\ \E i \in 1..Len(response) :
          /\ FounderLabelAt(i)
          /\ i + Len(FounderLabel) + 1 <= Len(response)
          /\ response[i + Len(FounderLabel) + 1] = "\n"
    /\ PersonNodes # {}
    /\ graph.nodes[2].label = <<"X", "y", "z">>

-----------------------------------------------------------------------------
(* Well-formedness of the built graph (Spec)                               *)

NodeIdsOf(g) == {g.nodes[k].id : k \in 1..Len(g.nodes)}

\* C11: every graph _build_graph returns is well formed: the node ids are
\* pairwise distinct, and the source and the target of every edge are ids of
\* nodes of the same graph.
C11_GraphWellFormed ==
    GraphDone =>
        /\ \A i, j \in 1..Len(graph.nodes) :
              i # j => graph.nodes[i].id # graph.nodes[j].id
        /\ \A k \in 1..Len(graph.edges) :
              /\ graph.edges[k].source \in NodeIdsOf(graph)
              /\ graph.edges[k].target \in NodeIdsOf(graph)

\* C11 witness: a graph with an edge to a person whose name has a capital
\* letter, so that the id differs from the label
C11_Witness ==
    /\ GraphDone
    /\ Len(graph.nodes) = 2
    /\ Len(graph.edges) = 1
    /\ graph.nodes[2].label # Lower(graph.nodes[2].label)
    /\ graph.edges[1].target = graph.nodes[2].id

-----------------------------------------------------------------------------
(* The layout of the Markdown report (SpecRender)                          *)

\* The lines of t, each under the position where it starts
LinesByStart(t) ==
    LET breaks == {j \in 1..Len(t) : t[j] = "\n"}
        end(p) == IF \E j \in breaks : j >= p
                  THEN Min({j \in breaks : j >= p}) - 1 ELSE Len(t)
    IN  [p \in {1} \cup {j + 1 : j \in breaks} |-> SubSeq(t, p, end(p))]

\* Where a line occurs among lines
Occurrences(lines, line) == {p \in DOMAIN lines : lines[p] = line}

\* Where the line after the line at p starts
NextLine(lines, p) == p + Len(lines[p]) + 1

\* The sets of places X and Y are in this order (an empty one is skipped)
Precedes(X, Y) == \A x \in X, y \in Y : x < y

\* The sections of the Markdown report doc, given with its lines, for the
\* record a and the images radar_b64 and cloud_b64
SectionsInOrder(doc, lines, a, radar_b64, cloud_b64) ==
    LET stamp   == Occurrences(lines, <<"**Generated at**: ">> \o a.extracted_at)
        table   == Occurrences(lines, <<"## Core elements">>)
        radar   == Occurrences(lines, <<RadarHeading>>)
        raw     == Occurrences(lines, <<"## LLM analysis (original text)">>)
        graphs  == Occurrences(lines, <<GraphHeading>>)
        cloud   == Occurrences(lines, <<CloudHeading>>)
        sources == Occurrences(lines, <<SourceHeading>>)
        footer  == Occurrences(lines, <<"---">>)
        body    == Strip(a.raw_response)
    IN  /\ lines[1][1] = TitlePrefix
        /\ \A s \in {stamp, table, raw, graphs, footer} : Cardinality(s) = 1
        /\ \A s \in {radar, cloud, sources} : Cardinality(s) <= 1
        /\ radar # {} <=> Truthy(radar_b64)
        /\ cloud # {} <=> Truthy(cloud_b64)
        /\ sources # {} <=> a.sources # <<>>
        /\ \A order \in {<<{1}, stamp, table, radar, raw, graphs, cloud, sources, footer>>} :
              \A i, j \in 1..Len(order) : i < j => Precedes(order[i], order[j])
        /\ \A r \in raw :
              LET from == NextLine(lines, NextLine(lines, r))
              IN  /\ lines[NextLine(lines, r)] = <<>>
                  /\ SubSeq(doc, from, from + Len(body) - 1) = body
                  /\ SubSeq(doc, from + Len(body), from + Len(body) + 2)
                         = <<"\n", "\n", GraphHeading>>
        /\ \A r \in radar :
              lines[NextLine(lines, r)]
                  = <<"![radar](data:image/png;base64,">> \o radar_b64[1] \o <<")">>
        /\ \A c \in cloud :
              lines[NextLine(lines, c)]
                  = <<"![keywords](data:image/png;base64,">> \o cloud_b64[1] \o <<")">>

\* C12: in render_markdown's output the sections appear in the order title,
\* generation-timestamp line, core-elements table, radar section, raw LLM
\* response (trimmed), relationship-graph section, keyword section, sources
\* table, footer; the radar section is there exactly when a radar image is
\* given, the keyword section exactly when a keyword image is given, the
\* sources table exactly when the record has a citation, and every other
\* section is always there.
C12_SectionOrder ==
    Returned("render_markdown") =>
        \A lines \in {LinesByStart(ret)} :
            SectionsInOrder(ret, lines, call.args[1], call.args[2], call.args[5])

\* C12 witness: a report with all three optional sections and a response
\* that is trimmed
C12_Witness ==
    /\ Returned("render_markdown")
    /\ Truthy(call.args[2]) /\ Truthy(call.args[5])
    /\ call.args[1].sources # <<>>
    /\ Strip(call.args[1].raw_response) # <<>>
    /\ Strip(call.args[1].raw_response) # call.args[1].raw_response
    /\ Occurrences(LinesByStart(ret), <<SourceHeading>>) # {}

-----------------------------------------------------------------------------
(* The core-elements table of the Markdown report (SpecRender)             *)

\* Neither key holds a value in the extracted elements
Missing(ke, key, other) == Get(ke, key, <<>>) = <<>> /\ Get(ke, other, <<>>) = <<>>

\* The row of the table for element shows shown
RowShows(lines, element, shown) ==
    Occurrences(lines, <<element>> \o shown \o <<" |">>) # {}

\* C13 as stated: each of the five rows of the core-elements table (name,
\* founded, sector, value proposition, description) shows an em-dash whenever
\* its value is missing from the extracted elements.
C13_EmDashWhenMissing ==
    Returned("render_markdown") =>
        \A lines \in {LinesByStart(ret)} : \A ke \in {call.args[1].key_elements} :
            /\ Missing(ke, "company_name", "name")
                  => RowShows(lines, "| Company name | ", EmDash)
            /\ Missing(ke, "founded", "founded_date")
                  => RowShows(lines, "| Founded | ", EmDash)
            /\ Missing(ke, "sector", "industry")
                  => RowShows(lines, "| Sector | ", EmDash)
            /\ Missing(ke, "one_liner", "value_proposition")
                  => RowShows(lines, "| Value proposition | ", EmDash)
            /\ Missing(ke, "description", "product_description")
                  => RowShows(lines, "| Description | ", EmDash)

\* C13 amended: when its value is missing, the name, founded and sector rows
\* show "N/A", and the value-proposition and description rows show an
\* em-dash.
C13_PlaceholderWhenMissing ==
    Returned("render_markdown") =>
        \A lines \in {LinesByStart(ret)} : \A ke \in {call.args[1].key_elements} :
            /\ Missing(ke, "company_name", "name")
                  => RowShows(lines, "| Company name | ", NA)
            /\ Missing(ke, "founded", "founded_date")
                  => RowShows(lines, "| Founded | ", NA)
            /\ Missing(ke, "sector", "industry")
                  => RowShows(lines, "| Sector | ", NA)
            /\ Missing(ke, "one_liner", "value_proposition")
                  => RowShows(lines, "| Value proposition | ", EmDash)
            /\ Missing(ke, "description", "product_description")
                  => RowShows(lines, "| Description | ", EmDash)

\* C13 witness: a record with an empty company name and no other name, no
\* sector and no description
C13_Witness ==
    /\ Returned("render_markdown")
    /\ "company_name" \in DOMAIN call.args[1].key_elements
    /\ Missing(call.args[1].key_elements, "company_name", "name")
    /\ Missing(call.args[1].key_elements, "sector", "industry")
    /\ Missing(call.args[1].key_elements, "description", "product_description")
    /\ RowShows(LinesByStart(ret), "| Company name | ", NA)
    /\ RowShows(LinesByStart(ret), "| Description | ", EmDash)

-----------------------------------------------------------------------------
(* The relationship-graph section of the two reports (SpecRender)          *)

\* The tokens of a document
TokensOf(doc) == {doc[i] : i \in 1..Len(doc)}

\* The value follows the token in the document
Shows(doc, token, value) ==
    \E i \in 1..Len(doc) :
        doc[i] = token /\ SubSeq(doc, i + 1, i + Len(value)) = value

\* The three alternatives of the graph section, in Markdown and in HTML
MarkdownGraphImage == "![graph](data:image/png;base64,"
HtmlGraphImage     == "<img graph>"
HtmlMermaid        == "<pre mermaid>"
HtmlNoGraphData    == "<div>no graph data</div>"

\* Of the three tokens the document holds exactly the one that the priority
\* image, script, placeholder selects, followed by the image or the script
OneGraphAlternative(doc, image, script, placeholder, graph_b64, mermaid) ==
    /\ TokensOf(doc) \cap {image, script, placeholder}
          = IF Truthy(graph_b64) THEN {image}
            ELSE IF Truthy(mermaid) THEN {script}
            ELSE {placeholder}
    /\ Truthy(graph_b64) => Shows(doc, image, graph_b64[1])
    /\ (~Truthy(graph_b64) /\ Truthy(mermaid)) => Shows(doc, script, <<"\n">> \o mermaid[1])
                                                  \/ Shows(doc, script, mermaid[1])

\* C14: in render_markdown and in the templated render_html the graph
\* section shows exactly one of three alternatives, by the same priority: the
\* graph image when one is given, otherwise the diagram script when one is
\* given, otherwise the "no graph data" placeholder.
C14_GraphSectionPriority ==
    /\ Returned("render_markdown") =>
          OneGraphAlternative(ret, MarkdownGraphImage, FenceOpen, NoGraphData,
                              call.args[3], call.args[4])
    /\ (Returned("render_html") /\ caps[1].tmpl) =>
          OneGraphAlternative(ret, HtmlGraphImage, HtmlMermaid, HtmlNoGraphData,
                              call.args[3], call.args[4])

\* C14 witness: the templated HTML report of a record given both the graph
\* image and the script, showing the image
C14_Witness ==
    /\ Returned("render_html")
    /\ caps[1].tmpl
    /\ Truthy(call.args[3]) /\ Truthy(call.args[4])
    /\ HtmlGraphImage \in TokensOf(ret)
    /\ HtmlMermaid \notin TokensOf(ret)

\* The blocks that stand for something missing, and the diagram script
MissingBlocks ==
    {"<div>no score</div>", HtmlNoGraphData, HtmlMermaid, "<div>mermaid hint</div>",
     "<div>no keywords</div>", "<div>no sources</div>"}

\* The four cells of a source as the template shows them
SourceCells(s) ==
    <<"<tr>", "<td>">> \o OrElse(Get(s, "title", <<>>), EmDash)
    \o <<"<td>">> \o OrElse(Get(s, "url", <<>>), EmDash)
    \o <<"<td>">> \o OrElse(Get(s, "level", <<>>), EmDash)
    \o <<"<td>">> \o OrElse(Get(s, "captured_at", <<>>), EmDash)
    \o <<"</tr>">>

\* doc holds part
HoldsPart(doc, part) ==
    \E i \in 1..(Len(doc) - Len(part) + 1) : SubSeq(doc, i, i + Len(part) - 1) = part

AllArtifactsGiven ==
    /\ Truthy(call.args[2]) /\ Truthy(call.args[3]) /\ Truthy(call.args[5])
    /\ call.args[1].sources # <<>>

\* C15: for a record given the radar image, the graph image, the keyword
\* image and at least one citation, render_html shows the same blocks with
\* and without the templating engine: no block for something missing, no
\* diagram script, and the title, url, level and capture date of every
\* citation; without the engine the document is the templated one.
C15_SameBlocksWithoutEngine ==
    (Returned("render_html") /\ AllArtifactsGiven) =>
        /\ TokensOf(ret) \cap MissingBlocks = {}
        /\ \A n \in 1..Len(call.args[1].sources) :
              HoldsPart(ret, SourceCells(call.args[1].sources[n]))
        /\ ret = RenderHtml(call.args[1], call.args[2], call.args[3], call.args[4],
                            call.args[5], [caps[1] EXCEPT !.tmpl = TRUE])

-----------------------------------------------------------------------------
(* _prepare_visuals on its own (SpecRender)                                *)

\* C16: _prepare_visuals never raises, for every record, empty keywords,
\* empty scoring and empty graph included, and for every combination of the
\* optional libraries; an empty scoring gives no radar image, empty keywords
\* no keyword image, an empty graph neither graph image nor script.
C16_PrepareVisualsNeverRaises ==
    Returned("_prepare_visuals") =>
        /\ ~ret.raised
        /\ DOMAIN call.args[1].scoring = {} => ret.radar_b64 = None
        /\ call.args[1].keywords = <<>> => ret.cloud_b64 = None
        /\ call.args[1].graph = EmptyGraph => ret.graph_b64 = None /\ ret.mermaid = None

\* Where _prepare_visuals does return: the record has keywords
PrepareVisualsReturns ==
    (Returned("_prepare_visuals") /\ call.args[1].keywords # <<>>) =>
        /\ ~ret.raised
        /\ DOMAIN call.args[1].scoring = {} => ret.radar_b64 = None
        /\ call.args[1].graph = EmptyGraph => ret.graph_b64 = None /\ ret.mermaid = None

-----------------------------------------------------------------------------
(* The failures of analyze_startup (Spec)                                  *)

\* C17: analyze_startup fails exactly when the LLM call fails: then it
\* raises one analysis failure that carries the cause of the LLM failure and
\* builds no record; once the call has returned a response text, whatever
\* the text, no step fails and the run ends with a record of that response.
C17_FailsExactlyWhenLLMFails ==
    /\ pc = "raised" =>
          /\ \E cause \in Causes :
                /\ err = Some([type |-> "Exception", msg |-> AnalysisFailure(LLMFailure(cause))])
                /\ HoldsPart(err[1].msg, cause)
          /\ ana = None
    /\ pc \notin {"llm", "raised"} => err = None
    /\ pc \in {"import", "report", "done"} =>
          /\ ana # None
          /\ ana[1].raw_response = response
          /\ <<text, response>> \in Inputs

\* C17 witness: the LLM call failed on a connection error and
\* analyze_startup raised a failure that names it
C17_Witness ==
    /\ pc = "raised"
    /\ err # None
    /\ HoldsPart(err[1].msg, <<"Connection error.">>)
    /\ ana = None

-----------------------------------------------------------------------------
(* The client handle, save_all and main (SpecMain)                         *)

ConstructorEnded ==
    /\ call.fn \in {"llm_client.LLMClient", "startup_analyzer.LLMClient"}
    /\ pc \in {"returned", "raised"}

NoCredential == ~Truthy(call.args[1]) /\ ~Truthy(call.args[2])

\* C18: constructing a client handle with no credential, neither the
\* api_key argument nor OPENAI_API_KEY, fails with the configuration error
\* and no service client has been created; main without the credential
\* ends before it reads the file or creates a client.
C18_NoCredentialFailsFirst ==
    /\ (ConstructorEnded /\ NoCredential) =>
          /\ pc = "raised"
          /\ err = Some(ConfigurationError)
          /\ client = None
    /\ (call.fn = "main" /\ ~Truthy(call.args[1]) /\ pc # "call") =>
          /\ pc = "exit"
          /\ client = None
          /\ text = <<>>

\* The handle of llm_client.py does fail first
LLMClientFailsFirst ==
    (ConstructorEnded /\ call.fn = "llm_client.LLMClient" /\ NoCredential) =>
        /\ pc = "raised"
        /\ err = Some(ConfigurationError)
        /\ client = None

SaveAllEnded == call.fn = "save_all" /\ pc \in {"returned", "raised"}

\* What the two reports of the record are
MarkdownOf(a, c) == ToMarkdown(a, c).doc
HtmlOf(a, c)     == ToHtml(a, c).doc
Producible(a, c) == ~PrepareVisuals(a, c).raised

Written(path, doc) == path \in DOMAIN files /\ files[path] = doc

\* C19 as stated: the two writes of save_all are independent: a failure
\* while producing or writing either document is surfaced, and the other
\* document is written all the same.
C19_WritesIndependent ==
    SaveAllEnded =>
        /\ (call.args[2] # "ok" \/ call.args[3] # "ok" \/ ~Producible(call.args[1], caps[1]))
              => pc = "raised" /\ err # None /\ ret = None
        /\ (Producible(call.args[1], caps[1]) /\ call.args[3] = "ok")
              => Written(DefaultHtmlPath, HtmlOf(call.args[1], caps[1]))
        /\ (Producible(call.args[1], caps[1]) /\ call.args[2] = "ok")
              => Written(DefaultMdPath, MarkdownOf(call.args[1], caps[1]))

\* C19: save_all writes the Markdown document first and the HTML document
\* second.  A failure while producing or writing either is surfaced: save_all
\* raises and returns no mapping.  A failure of the Markdown document leaves
\* the HTML document neither produced nor written; a failure of the HTML
\* write leaves the Markdown document written in full; with no failure both
\* are written and the mapping of the two paths is returned.
C19_MarkdownThenHtml ==
    SaveAllEnded =>
        \A producible \in {Producible(call.args[1], caps[1])} :
            /\ (call.args[2] # "ok" \/ call.args[3] # "ok" \/ ~producible)
                  => pc = "raised" /\ err # None /\ ret = None /\ out = <<>>
            /\ (call.args[2] # "ok" \/ ~producible)
                  => DefaultHtmlPath \notin DOMAIN files
            /\ (producible /\ call.args[2] = "ok")
                  => Written(DefaultMdPath, MarkdownOf(call.args[1], caps[1]))
            /\ (producible /\ call.args[2] = "ok" /\ call.args[3] = "ok")
                  => /\ pc = "returned" /\ err = None
                     /\ Written(DefaultHtmlPath, HtmlOf(call.args[1], caps[1]))
                     /\ ret = Some([markdown |-> DefaultMdPath, html |-> DefaultHtmlPath])

\* C19 witness: the HTML write failed after the Markdown document was
\* written; save_all raised
C19_Witness ==
    /\ SaveAllEnded
    /\ pc = "raised"
    /\ call.args[2] = "ok" /\ call.args[3] = "open"
    /\ DefaultMdPath \in DOMAIN files
    /\ files[DefaultMdPath] # <<>>
    /\ DefaultHtmlPath \notin DOMAIN files

MainEnded == call.fn = "main" /\ pc = "exit"

\* C20: when main ends after a run with the credential present, data.txt
\* readable and the LLM call successful (and both writes able to succeed),
\* both documents are in the files at the paths main asked for, the
\* completion message has been printed and the error branch was not entered.
C20_MainCompletes ==
    (MainEnded /\ Truthy(call.args[1]) /\ call.args[2] /\ ana # None
               /\ call.args[4] = "ok" /\ call.args[5] = "ok") =>
        /\ {MainMdPath, MainHtmlPath} \subseteq DOMAIN files
        /\ \E i \in 1..Len(out) : out[i] = MsgComplete
        /\ \A i \in 1..Len(out) : SubSeq(out[i], 1, 1) # <<"error during analysis: ">>

\* What main does instead: it writes no file and never prints the
\* completion message, and after a successful analysis it ends in the error
\* branch with the message of the rejected call
MainNeverSaves ==
    call.fn = "main" =>
        /\ files = <<>>
        /\ \A i \in 1..Len(out) : out[i] # MsgComplete
        /\ (pc = "exit" /\ ana # None) => out[Len(out)] = MsgError(UnexpectedKeyword)

-----------------------------------------------------------------------------
(* The streamed reply of call_llm (SpecMain)                               *)

Streaming == call.fn = "call_llm" /\ call.args[1] /\ pc \in {"streaming", "returned"}

\* The chunks consumed so far
Consumed == SubSeq(call.args[2], 1, Len(call.args[2]) - Len(stream))

CarriesContent(chunk) == chunk.kind = "delta" /\ Truthy(chunk.content)

\* The contents of the chunks that carry some, in the order of the chunks
GatheredAndEchoed(chunks) ==
    \A kept \in {SelectSeq(chunks, CarriesContent)} :
        /\ response = Flatten([i \in 1..Len(kept) |-> kept[i].content[1]])
        /\ SubSeq(out, 2, Len(kept) + 1) = [i \in 1..Len(kept) |-> kept[i].content[1]]
        /\ Len(out) = Len(kept) + (IF pc = "returned" THEN 2 ELSE 1)

\* C21: while call_llm streams, after every chunk the text gathered so far
\* is the concatenation, in arrival order, of the contents of exactly the
\* chunks consumed so far that carry non-empty content, and each of these
\* contents has been echoed, once and in that order, before the next chunk
\* is consumed; when the stream has ended without error that text, over all
\* the chunks, is returned.
C21_StreamConcatenatedInOrder ==
    Streaming =>
        /\ GatheredAndEchoed(Consumed)
        /\ out[1] = MsgStreaming
        /\ pc = "returned" =>
              /\ stream = <<>>
              /\ Consumed = call.args[2]
              /\ ret = Some(response)
              /\ out[Len(out)] = <<"\n">>

\* C21 witness: a stream of three chunks, two with different contents and
\* one with empty content between them, has been returned
C21_Witness ==
    /\ Streaming
    /\ pc = "returned"
    /\ call.args[2] = <<Delta(Some(<<"b", "c">>)), Delta(Some(<<>>)), Delta(Some(<<"a">>))>>
    /\ ret = Some(<<"b", "c", "a">>)

-----------------------------------------------------------------------------
(* The drawn relationship graph (SpecRender)                               *)

\* The ids of the nodes listed in the graph, as add_node takes them
ListedIds(g) == {Get(g.nodes[k], "id", <<>>) : k \in 1..Len(g.nodes)}

GraphDrawn == Returned("render_graph_base64") /\ ret.result[1] # None

\* C22: with the layout and the charting library available,
\* render_graph_base64 draws only edges whose source and target are both ids
\* of nodes listed in the graph, and draws no node that is not listed.
C22_DrawsOnlyListedNodes ==
    GraphDrawn =>
        /\ \A e \in ret.drawn.edges :
              e[1] \in ListedIds(call.args[1]) /\ e[2] \in ListedIds(call.args[1])
        /\ ret.drawn.nodes \subseteq ListedIds(call.args[1])

\* What render_graph_base64 does drop: the edges that lack an end or have
\* an empty one
DrawsEdgesWithBothEnds ==
    GraphDrawn =>
        /\ \A e \in ret.drawn.edges : e[1] # <<>> /\ e[2] # <<>>
        /\ ret.drawn.nodes = ListedIds(call.args[1])
                               \cup {e[1] : e \in ret.drawn.edges}
                               \cup {e[2] : e \in ret.drawn.edges}

-----------------------------------------------------------------------------
(* The labelled values of _extract_key_elements (Spec)                     *)

KeyElementsReturned == pc = "keywords"

\* Where the label with its colon first occurs in s; 0 when it does not
FirstLabel(s, label) ==
    LET at == {i \in 1..Len(s) : LabelAt(s, i, label)}
    IN  IF at = {} THEN 0 ELSE Min(at)

\* The trimmed rest of the line after the label that starts at p
RestOfLabelLine(s, label, p) ==
    Strip(SubSeq(s, p + Len(label) + 1, LineEnd(s, p + Len(label) + 1)))

\* The value under key is the trimmed, non-empty rest of the line on which
\* the label first occurs, and the label starts that line
FromLabelLine(key, label) ==
    key \in DOMAIN key_elements =>
        \A p \in {FirstLabel(response, label)} :
            /\ p # 0
            /\ (p = 1 \/ response[p - 1] = "\n")
            /\ RestOfLabelLine(response, label, p) # <<>>
            /\ key_elements[key] = RestOfLabelLine(response, label, p)

\* C23: the sector (the one_liner) that _extract_key_elements returns is the
\* trimmed rest of the line on which the sector label (the value-proposition
\* label) first occurs, the label starts its line, and when the rest of that
\* line is empty nothing of a later line is returned.
C23_ValueFromLabelLine ==
    KeyElementsReturned =>
        /\ FromLabelLine("sector", SectorLabel)
        /\ FromLabelLine("one_liner", ValueLabel)

=============================================================================
